---- MODULE Spec2Model ----
(***************************************************************************)
(* Verification model of the ReachBy3Cs agent service:                     *)
(*   - the posting queue (src/posting/queue.py),                           *)
(*   - the engagement pipeline (src/agents/engagement_pipeline.py),        *)
(*   - the organisation rate-limit manager and the eligibility checker     *)
(*     (src/automation/limits.py, src/automation/eligibility.py).          *)
(* Time is the wall clock in seconds (datetime.utcnow()).                  *)
(***************************************************************************)
EXTENDS Integers, Sequences, FiniteSets, Bags, TLC

(***************************************************************************)
(* Bounds of the model                                                     *)
(***************************************************************************)
MaxItems == 2
MaxTime == 6
TickStep == 1
MaxApiCompletes == 4
MaxStale == 1

(***************************************************************************)
(* Posting queue configuration (constructor arguments of PostingQueue and  *)
(* the argument of start)                                                  *)
(***************************************************************************)
max_retries == 3
base_retry_delay == 2
max_retry_delay == 3
max_queue_size == 2
num_workers == 2

ItemIds == 1..MaxItems
Workers == 1..num_workers
HostTask == num_workers + 1
None == -1

Priorities == {50}
ScheduleOffsets == {0}
WaitHints == {3}

(* QueueStatus *)
QUEUED == "queued"
PROCESSING == "processing"
COMPLETED == "completed"
FAILED == "failed"
RETRY_PENDING == "retry_pending"
CANCELLED == "cancelled"
QueueStatus == {QUEUED, PROCESSING, COMPLETED, FAILED, RETRY_PENDING, CANCELLED, "rate_limited"}

(* PostResult values a post callback can hand to complete *)
ResultSuccess == [success |-> TRUE, retryable |-> TRUE, error_code |-> "", wait_seconds |-> 0]
ResultPermanent == [success |-> FALSE, retryable |-> FALSE, error_code |-> "DELETED_COMMENT", wait_seconds |-> 0]
ResultRateLimit(w) == [success |-> FALSE, retryable |-> TRUE, error_code |-> "RATELIMIT", wait_seconds |-> w]
(* a synthetic result that is not retryable *)
ResultWorkerErrorFinal == [success |-> FALSE, retryable |-> FALSE, error_code |-> "WORKER_ERROR", wait_seconds |-> 0]

(* the result the worker makes of an exception of the post callback: lines 505-514 *)
ResultWorkerError == [success |-> FALSE, retryable |-> TRUE, error_code |-> "WORKER_ERROR", wait_seconds |-> 0]
NoResult == [success |-> FALSE, retryable |-> FALSE, error_code |-> "none", wait_seconds |-> 0]
PostResults == {ResultSuccess, ResultPermanent} \cup {ResultRateLimit(w) : w \in WaitHints}

VARIABLES
    now,          \* datetime.utcnow()
    item,         \* the QueueItem objects, by id
    created,      \* ids of the QueueItem objects constructed so far
    items_map,    \* keys of PostingQueue._items
    processing,   \* PostingQueue._processing
    queue,        \* PostingQueue._queue: bag of (priority, timestamp, item) entries
    lock,         \* holder of PostingQueue._lock, 0 when free
    pc,           \* position of each worker in _worker_loop
    witem,        \* the item a worker's dequeue has taken
    wresult,      \* the PostResult a worker passes to complete and on to the failure callback
    host_put,     \* the put a host call (enqueue, complete) is blocked in, holding the lock
    attempts,     \* history: post callback invocations per item
    callbacks,    \* history: success/failure callback invocations per item
    all_retryable,\* history: every attempt of the item so far failed with retryable=true
    term_count,   \* history: number of times the item entered a terminal status
    last_failure, \* history: time and PostResult of the item's latest failure that was retried
    api_completes \* history: number of complete calls made by the host

qvars == <<now, item, created, items_map, processing, queue, lock, pc, witem, wresult,
           host_put, attempts, callbacks, all_retryable, term_count, last_failure, api_completes>>

VARIABLES
    p_pc,         \* the workflow node about to run ("idle" before run, "END" after)
    p_text,       \* PipelineState.text: whether a crisis pattern matches it, and its length
    p_platform,   \* PipelineState.platform
    p_signal,     \* PipelineState.signal
    p_risk,       \* PipelineState.risk
    p_responses,  \* PipelineState.responses
    p_cta,        \* PipelineState.cta
    p_cts,        \* PipelineState.cts
    p_error,      \* PipelineState.error is not None
    p_blocked,    \* PipelineState.blocked
    p_first_gate, \* history: which came first in the run, the crisis detector or an LLM call
    p_llm_failed  \* history: some LLM call of the run failed

pvars == <<p_pc, p_text, p_platform, p_signal, p_risk, p_responses, p_cta, p_cts, p_error,
           p_blocked, p_first_gate, p_llm_failed>>

VARIABLES
    l_now,        \* datetime.utcnow() as seen by the rate-limit manager, in seconds
    l_limits,     \* RateLimitManager._org_limits for the organization (Unset when absent)
    l_history,    \* RateLimitManager._post_history for the organization
    l_log,        \* history: the times of all record_post calls, never purged
    l_call        \* the call that is returning, with its arguments and result, until
                  \* the caller has it

lvars == <<l_now, l_limits, l_history, l_log, l_call>>

VARIABLES
    d_pc,         \* position of the host's dequeue call: "idle", "get", "sleep", "wait_lock"
    d_seen,       \* history: ids the call in progress has re-queued as scheduled for later
    d_ret         \* the entry the call has taken to return, or what the last call returned

dvars == <<d_pc, d_seen, d_ret>>

VARIABLES
    c_store,      \* the store: table name -> set of rows
    c_uuid,       \* number of row ids handed out by uuid4 so far
    c_pc,         \* run -> "idle", "loop", "pipeline"
    c_posts,      \* run -> the posts of result.posts not yet visited
    c_post,       \* run -> the post the loop is at
    c_stats,      \* run -> the stats dictionary
    c_returned,   \* history: number of process_crawl_results calls that have returned
    c_faults      \* history: number of store inserts that have raised

cvars == <<c_store, c_uuid, c_pc, c_posts, c_post, c_stats, c_returned, c_faults>>

VARIABLES
    a_batch,      \* call of process_eligible_responses -> its position, the responses it
                  \* has still to process and the one it is at
    a_status,     \* response id -> the status column of the response
    a_queue,      \* response ids of the items queued in the posting queue, oldest first
    a_history,    \* RateLimitManager._post_history for the organization; each entry also
                  \* carries the response it was recorded for
    a_acked,      \* history: responses the poster acknowledged as posted, in that order
    a_eligible,   \* history: responses for which AutoPostEligibility.check returned eligible
    a_enqueued    \* history: responses the worker has enqueued

avars == <<a_batch, a_status, a_queue, a_history, a_acked, a_eligible, a_enqueued>>

VARIABLES
    j_pc,         \* call of _execute_crawl -> "idle", "search", "callback"
    j_enabled,    \* config.enabled of the job's crawl configuration
    j_callback,   \* whether CrawlScheduler._result_callback is set
    j_status,     \* the job's CrawlJobStatus: total_runs, successful_runs, failed_runs,
                  \* last_status
    j_started,    \* history: executions of the enabled job started so far
    j_finished    \* history: executions of the enabled job that have returned

jvars == <<j_pc, j_enabled, j_callback, j_status, j_started, j_finished>>

VARIABLES
    r_now,        \* time.time(), in tenths of a second
    r_minute,     \* RateLimiter._minute_window
    r_hour,       \* RateLimiter._hour_window
    r_last,       \* RateLimiter._last_request_time
    r_failures,   \* RateLimiter._consecutive_failures
    r_lock,       \* the caller that holds RateLimiter._lock, or 0
    r_waiters,    \* the callers waiting for the lock, in the order they asked
    r_pc,         \* caller -> its position in acquire and the time its sleep ends
    r_log         \* history: the times at which acquire calls have returned

rvars == <<r_now, r_minute, r_hour, r_last, r_failures, r_lock, r_waiters, r_pc, r_log>>

VARIABLES
    t_now,        \* datetime.utcnow() as seen by the periodic task runner, in seconds
    t_tasks,      \* AutoPostScheduler._tasks: name -> the fields of the ScheduledTask
    t_created,    \* name -> runs the loop has created with create_task that have not begun
    t_running     \* name -> runs of _run_task that are awaiting the task's callback

tvars == <<t_now, t_tasks, t_created, t_running>>

VARIABLES
    s_phase       \* PostingQueue.stop: "running" before the call, "stopping" while it waits
                  \* for the workers, "stopped" when it has returned

svars == <<s_phase>>

VARIABLES
    n_text,        \* the text passed to CrisisDetector.detect, a sequence of characters
    n_normalized,  \* what _normalize_text made of it
    n_is_crisis    \* CrisisDetectionResult.is_crisis

nvars == <<n_text, n_normalized, n_is_crisis>>

vars == <<qvars, pvars, lvars, dvars, cvars, avars, jvars, rvars, tvars, svars, nvars>>

(* what the operations of one component leave alone *)
not_queue == <<pvars, lvars, dvars, cvars, avars, jvars, rvars, tvars, svars, nvars>>

not_dequeue == <<pvars, lvars, cvars, avars, jvars, rvars, tvars, svars, nvars>>

not_pipeline == <<qvars, lvars, dvars, cvars, avars, jvars, rvars, tvars, svars, nvars>>

not_limits == <<qvars, pvars, dvars, cvars, avars, jvars, rvars, tvars, svars, nvars>>

not_crawl == <<qvars, pvars, lvars, dvars, avars, jvars, rvars, tvars, svars, nvars>>

not_autopost == <<qvars, pvars, lvars, dvars, cvars, jvars, rvars, tvars, svars, nvars>>

not_job == <<qvars, pvars, lvars, dvars, cvars, avars, rvars, tvars, svars, nvars>>

not_limiter == <<qvars, pvars, lvars, dvars, cvars, avars, jvars, tvars, svars, nvars>>

not_tasks == <<qvars, pvars, lvars, dvars, cvars, avars, jvars, rvars, svars, nvars>>

not_stop == <<qvars, pvars, lvars, dvars, cvars, avars, jvars, rvars, tvars, nvars>>

not_crisis == <<qvars, pvars, lvars, dvars, cvars, avars, jvars, rvars, tvars, svars>>

(***************************************************************************)
(* QueueItem                                                               *)
(***************************************************************************)
NewItem(priority, scheduled_for) ==
    [status |-> QUEUED, priority |-> priority, retry_count |-> 0, max_retries |-> max_retries,
     scheduled_for |-> scheduled_for]

Terminal(s) == s \in {COMPLETED, FAILED, CANCELLED}

Entry(id, priority, ts) == [id |-> id, priority |-> priority, ts |-> ts]

QueueSize == BagCardinality(queue)

QueueFull == QueueSize >= max_queue_size

(* a get that returns any entry, whatever its priority *)
IsAnyEntry(e) == BagIn(e, queue)

(* asyncio.PriorityQueue.get: an entry that is least in (-priority, timestamp) *)
IsHead(e) ==
    /\ BagIn(e, queue)
    /\ \A f \in BagToSet(queue) :
          \/ e.priority > f.priority
          \/ e.priority = f.priority /\ e.ts <= f.ts

NoPut == [id |-> 0, kind |-> "none"]

QueuePut(q, e) == q (+) SetToBag({e})

(* a get that leaves the entry in the queue *)
QueueGetPeek(q, e) == q

QueueGet(q, e) == q (-) SetToBag({e})

(* the entry an item leaves in _queue when it is cancelled before a worker gets it
   (cancel deletes from _items only) *)
StaleEntry == Entry(0, 50, 0)

StaleBag(n) == IF n = 0 THEN EmptyBag ELSE [e \in {StaleEntry} |-> n]

(***************************************************************************)
(* Initial state: PostingQueue.__init__ followed by start(num_workers),    *)
(* possibly after earlier items were enqueued and cancelled                *)
(***************************************************************************)
QInit(stale) ==
    /\ now = 0
    /\ item = [i \in ItemIds |-> NewItem(0, None)]
    /\ created = {}
    /\ items_map = {}
    /\ processing = {}
    /\ \E n \in 0..stale : queue = StaleBag(n)
    /\ lock = 0
    /\ pc = [w \in Workers |-> "dequeue"]
    /\ witem = [w \in Workers |-> 0]
    /\ wresult = [w \in Workers |-> NoResult]
    /\ host_put = NoPut
    /\ attempts = [i \in ItemIds |-> 0]
    /\ callbacks = [i \in ItemIds |-> 0]
    /\ all_retryable = [i \in ItemIds |-> TRUE]
    /\ term_count = [i \in ItemIds |-> 0]
    /\ last_failure = [i \in ItemIds |-> [at |-> 0, result |-> NoResult]]
    /\ api_completes = 0

(***************************************************************************)
(* The clock                                                               *)
(***************************************************************************)
Waiting(i) == i \in items_map /\ item[i].scheduled_for # None /\ now < item[i].scheduled_for

Tick ==
    /\ UNCHANGED not_queue
    /\ now + TickStep <= MaxTime
    /\ \E i \in ItemIds : Waiting(i)
    /\ now' = now + TickStep
    /\ UNCHANGED <<item, created, items_map, processing, queue, lock, pc, witem, wresult,
                   host_put, attempts, callbacks, all_retryable, term_count, api_completes, last_failure>>

(***************************************************************************)
(* PostingQueue.enqueue                                                    *)
(***************************************************************************)
NextId == CHOOSE i \in ItemIds \ created : \A j \in ItemIds \ created : i <= j

Enqueue(priority, offset) ==
    /\ UNCHANGED not_queue
    /\ lock = 0
    /\ created # ItemIds
    /\ Cardinality(items_map) < max_queue_size
    /\ LET id == NextId
           sched == IF offset = 0 THEN None ELSE now + offset
           ts == IF sched = None THEN now ELSE sched
       IN /\ item' = [item EXCEPT ![id] = NewItem(priority, sched)]
          /\ created' = created \cup {id}
          /\ IF QueueFull
                THEN /\ lock' = HostTask
                     /\ host_put' = [id |-> id, kind |-> "enqueue"]
                     /\ UNCHANGED <<queue, items_map>>
                ELSE /\ queue' = QueuePut(queue, Entry(id, priority, ts))
                     /\ items_map' = items_map \cup {id}
                     /\ UNCHANGED <<lock, host_put>>
    /\ UNCHANGED <<now, processing, pc, witem, wresult, attempts, callbacks, all_retryable,
                   term_count, api_completes, last_failure>>

(* the put of a blocked enqueue resumes once the queue has room *)
EnqueuePutResume ==
    /\ UNCHANGED not_queue
    /\ host_put.kind = "enqueue"
    /\ ~QueueFull
    /\ LET id == host_put.id
           ts == IF item[id].scheduled_for = None THEN now ELSE item[id].scheduled_for
       IN /\ queue' = QueuePut(queue, Entry(id, item[id].priority, ts))
          /\ items_map' = items_map \cup {id}
    /\ lock' = 0
    /\ host_put' = NoPut
    /\ UNCHANGED <<now, item, created, processing, pc, witem, wresult, attempts, callbacks,
                   all_retryable, term_count, api_completes, last_failure>>

(***************************************************************************)
(* PostingQueue.dequeue, as run by a worker                                *)
(***************************************************************************)
ScheduledLater(i) == item[i].scheduled_for # None /\ now < item[i].scheduled_for

(* lines 222-225: under the lock, claim the item *)
MarkProcessing(i) ==
    /\ processing' = processing \cup {i}
    /\ item' = [item EXCEPT ![i].status = PROCESSING]

(* one iteration of the while loop, from the return of _queue.get() *)
DequeueGet(w) ==
    /\ UNCHANGED not_queue
    /\ pc[w] = "dequeue"
    /\ \E e \in BagToSet(queue) :
         /\ IsHead(e)
         /\ IF e.id \notin items_map
               THEN \* cancelled: continue
                    /\ queue' = QueueGet(queue, e)
                    /\ UNCHANGED <<item, processing, pc, witem>>
               ELSE IF ScheduledLater(e.id)
               THEN \* re-queue for later, sleep(1), continue
                    /\ BagCardinality(QueueGet(queue, e)) < max_queue_size
                    /\ queue' = QueuePut(QueueGet(queue, e), e)
                    /\ UNCHANGED <<item, processing, pc, witem>>
               ELSE IF e.id \in processing
               THEN \* already being processed: continue
                    /\ queue' = QueueGet(queue, e)
                    /\ UNCHANGED <<item, processing, pc, witem>>
               ELSE /\ queue' = QueueGet(queue, e)
                    /\ witem' = [witem EXCEPT ![w] = e.id]
                    /\ IF lock = 0
                          THEN /\ MarkProcessing(e.id)
                               /\ pc' = [pc EXCEPT ![w] = "post"]
                          ELSE /\ pc' = [pc EXCEPT ![w] = "wait_lock"]
                               /\ UNCHANGED <<item, processing>>
    /\ UNCHANGED <<now, created, items_map, lock, wresult, host_put, attempts, callbacks,
                   all_retryable, term_count, api_completes, last_failure>>

(* line 222: the lock was held by another task; it is acquired now *)
DequeueMark(w) ==
    /\ UNCHANGED not_queue
    /\ pc[w] = "wait_lock"
    /\ lock = 0
    /\ MarkProcessing(witem[w])
    /\ pc' = [pc EXCEPT ![w] = "post"]
    /\ UNCHANGED <<now, created, items_map, queue, lock, witem, wresult, host_put, attempts,
                   callbacks, all_retryable, term_count, api_completes, last_failure>>

(***************************************************************************)
(* PostingQueue.complete and PostingQueue._handle_failure                  *)
(***************************************************************************)
Min2(a, b) == IF a <= b THEN a ELSE b

Max2(a, b) == IF a >= b THEN a ELSE b

(* a backoff that does not look at the wait hint of a rate-limit failure *)
RetryDelayNoHint(retry_count, r) ==
    Min2(base_retry_delay * (2 ^ (retry_count - 1)), max_retry_delay)

(* lines 282-289: exponential backoff, raised to a rate-limit wait hint *)
RetryDelay(retry_count, r) ==
    LET delay == Min2(base_retry_delay * (2 ^ (retry_count - 1)), max_retry_delay)
    IN IF r.error_code = "RATELIMIT" /\ r.wait_seconds # 0
          THEN Max2(delay, r.wait_seconds)
          ELSE delay

(* a retry test that does not look at result.retryable *)
ShouldRetryAlways(i, r) == item[i].retry_count + 1 < item[i].max_retries

(* line 280, evaluated after retry_count was incremented *)
ShouldRetry(i, r) == r.retryable /\ item[i].retry_count + 1 < item[i].max_retries

CompleteOutcome(i, r) ==
    IF i \notin items_map THEN "absent"
    ELSE IF r.success THEN "success"
    ELSE IF ShouldRetry(i, r) THEN (IF QueueFull THEN "retry_blocked" ELSE "retry")
    ELSE "failed"

(* the item after lines 248-249, 276-277 and 291-292 *)
RetryItem(i, r) ==
    LET rc == item[i].retry_count + 1
    IN [item[i] EXCEPT !.retry_count = rc,
                       !.status = RETRY_PENDING,
                       !.scheduled_for = now + RetryDelay(rc, r)]

(* what complete(i, r) does to the queue's state, up to its first suspension *)
CompleteEffect(i, r) ==
    LET outcome == CompleteOutcome(i, r)
    IN CASE outcome = "absent" ->
              UNCHANGED <<item, processing, queue, callbacks, term_count, last_failure>>
         [] outcome = "success" ->
              /\ item' = [item EXCEPT ![i].status = COMPLETED]
              /\ processing' = processing \ {i}
              /\ callbacks' = [callbacks EXCEPT ![i] = @ + 1]
              /\ term_count' = [term_count EXCEPT ![i] = @ + 1]
              /\ UNCHANGED <<queue, last_failure>>
         [] outcome = "retry" ->
              /\ item' = [item EXCEPT ![i] = RetryItem(i, r)]
              /\ queue' = QueuePut(queue, Entry(i, item[i].priority, RetryItem(i, r).scheduled_for))
              /\ processing' = processing \ {i}
              /\ last_failure' = [last_failure EXCEPT ![i] = [at |-> now, result |-> r]]
              /\ UNCHANGED <<callbacks, term_count>>
         [] outcome = "retry_blocked" ->
              /\ item' = [item EXCEPT ![i] = RetryItem(i, r)]
              /\ last_failure' = [last_failure EXCEPT ![i] = [at |-> now, result |-> r]]
              /\ UNCHANGED <<processing, queue, callbacks, term_count>>
         [] outcome = "failed" ->
              /\ item' = [item EXCEPT ![i].retry_count = @ + 1, ![i].status = FAILED]
              /\ processing' = processing \ {i}
              /\ callbacks' = [callbacks EXCEPT ![i] = @ + 1]
              /\ term_count' = [term_count EXCEPT ![i] = @ + 1]
              /\ UNCHANGED <<queue, last_failure>>

(* lines 295-301 once the blocked put has room: re-queue, leave the processing set *)
RetryPutEffect(i) ==
    /\ queue' = QueuePut(queue, Entry(i, item[i].priority, item[i].scheduled_for))
    /\ processing' = processing \ {i}

(***************************************************************************)
(* PostingQueue._worker_loop                                               *)
(***************************************************************************)
(* the worker's locals once it is back at the top of the loop *)
Release(f, w, blank, outcome) ==
    IF outcome \in {"absent", "retry"} THEN [f EXCEPT ![w] = blank] ELSE f

(* what a worker's complete call does, up to its first suspension *)
WorkerCompleteEffect(w, r) ==
    /\ CompleteEffect(witem[w], r)
    /\ LET outcome == CompleteOutcome(witem[w], r)
       IN /\ pc' = [pc EXCEPT ![w] =
                      CASE outcome = "success" -> "on_success"
                        [] outcome = "failed" -> "on_failure"
                        [] outcome = "retry_blocked" -> "put_wait"
                        [] OTHER -> "dequeue"]
          /\ lock' = IF outcome \in {"success", "failed", "retry_blocked"} THEN w ELSE 0
          /\ witem' = Release(witem, w, 0, outcome)
          /\ wresult' = [wresult EXCEPT ![w] = IF outcome = "failed" THEN r ELSE NoResult]

(* lines 494-514: the post callback returns a result or raises, and the worker
   calls complete; complete waits when the lock is held *)
WorkerPost(w, r) ==
    /\ UNCHANGED not_queue
    /\ pc[w] = "post"
    /\ attempts' = [attempts EXCEPT ![witem[w]] = @ + 1]
    /\ all_retryable' = [all_retryable EXCEPT ![witem[w]] = @ /\ ~r.success /\ r.retryable]
    /\ IF lock = 0
          THEN WorkerCompleteEffect(w, r)
          ELSE /\ pc' = [pc EXCEPT ![w] = "complete"]
               /\ wresult' = [wresult EXCEPT ![w] = r]
               /\ UNCHANGED <<item, processing, queue, lock, witem, callbacks, term_count,
                              last_failure>>
    /\ UNCHANGED <<now, created, items_map, host_put, api_completes>>

(* line 243: the lock was held by another task; complete acquires it now *)
WorkerComplete(w) ==
    /\ UNCHANGED not_queue
    /\ pc[w] = "complete"
    /\ lock = 0
    /\ WorkerCompleteEffect(w, wresult[w])
    /\ UNCHANGED <<now, created, items_map, host_put, attempts, all_retryable, api_completes>>

(* lines 257/318: the success or failure callback returns, the lock is released *)
WorkerCallbackReturn(w) ==
    /\ UNCHANGED not_queue
    /\ pc[w] \in {"on_success", "on_failure"}
    /\ lock' = 0
    /\ pc' = [pc EXCEPT ![w] = "dequeue"]
    /\ witem' = [witem EXCEPT ![w] = 0]
    /\ wresult' = [wresult EXCEPT ![w] = NoResult]
    /\ UNCHANGED <<now, item, created, items_map, processing, queue, host_put,
                   attempts, callbacks, all_retryable, term_count, api_completes, last_failure>>

(* line 295: the blocked put of a retry resumes *)
WorkerPutResume(w) ==
    /\ UNCHANGED not_queue
    /\ pc[w] = "put_wait"
    /\ ~QueueFull
    /\ RetryPutEffect(witem[w])
    /\ lock' = 0
    /\ pc' = [pc EXCEPT ![w] = "dequeue"]
    /\ witem' = [witem EXCEPT ![w] = 0]
    /\ UNCHANGED <<now, item, created, items_map, wresult, host_put, attempts, callbacks,
                   all_retryable, term_count, api_completes, last_failure>>

(***************************************************************************)
(* PostingQueue.cancel                                                     *)
(***************************************************************************)
CancelAllowed(i) == i \in items_map /\ item[i].status # PROCESSING

Cancel(i) ==
    /\ UNCHANGED not_queue
    /\ lock = 0
    /\ IF CancelAllowed(i)
          THEN /\ item' = [item EXCEPT ![i].status = CANCELLED]
               /\ items_map' = items_map \ {i}
               /\ term_count' = [term_count EXCEPT ![i] = @ + 1]
          ELSE UNCHANGED <<item, items_map, term_count>>
    /\ UNCHANGED <<now, created, processing, queue, lock, pc, witem, wresult, host_put,
                   attempts, callbacks, all_retryable, api_completes, last_failure>>

(***************************************************************************)
(* dequeue and complete called by the host one call at a time, without a   *)
(* worker pool (as tests/posting/test_queue.py does); the callbacks return *)
(* without suspending, and a put on a full queue never returns             *)
(***************************************************************************)
(* one iteration of the while loop of dequeue *)
HostDequeue ==
    /\ UNCHANGED not_queue
    /\ lock = 0
    /\ \E e \in BagToSet(queue) :
         /\ IsHead(e)
         /\ IF e.id \notin items_map
               THEN /\ queue' = QueueGet(queue, e)
                    /\ UNCHANGED <<item, processing>>
               ELSE IF ScheduledLater(e.id)
               THEN /\ queue' = QueuePut(QueueGet(queue, e), e)
                    /\ UNCHANGED <<item, processing>>
               ELSE IF e.id \in processing
               THEN /\ queue' = QueueGet(queue, e)
                    /\ UNCHANGED <<item, processing>>
               ELSE /\ queue' = QueueGet(queue, e)
                    /\ MarkProcessing(e.id)
    /\ UNCHANGED <<now, created, items_map, lock, pc, witem, wresult, host_put, attempts,
                   callbacks, all_retryable, term_count, api_completes, last_failure>>

ApiComplete(i, r) ==
    /\ UNCHANGED not_queue
    /\ lock = 0
    /\ api_completes < MaxApiCompletes
    /\ api_completes' = api_completes + 1
    /\ CompleteEffect(i, r)
    /\ IF CompleteOutcome(i, r) = "retry_blocked"
          THEN /\ lock' = HostTask
               /\ host_put' = [id |-> i, kind |-> "retry"]
          ELSE UNCHANGED <<lock, host_put>>
    /\ UNCHANGED <<now, created, items_map, pc, witem, wresult, attempts, all_retryable>>

(***************************************************************************)
(* One dequeue call of the host followed through its while loop, with      *)
(* enqueue and cancel called meanwhile                                     *)
(***************************************************************************)
OrderPriorities == {10, 50}
OrderOffsets == {0, 2}

Returned(kind, e) == [kind |-> kind, id |-> e.id, priority |-> e.priority, ts |-> e.ts]

NoReturn == Returned("none", Entry(0, 0, 0))

ReturnedNone == Returned("None", Entry(0, 0, 0))

DInit ==
    /\ d_pc = "idle"
    /\ d_seen = {}
    /\ d_ret = NoReturn

(* time passes *)
Elapse ==
    /\ UNCHANGED not_queue
    /\ now + TickStep <= MaxTime
    /\ now' = now + TickStep
    /\ UNCHANGED <<item, created, items_map, processing, queue, lock, pc, witem, wresult,
                   host_put, attempts, callbacks, all_retryable, term_count, api_completes,
                   last_failure>>

(* dequeue() is called and awaits _queue.get() *)
DequeueCall ==
    /\ UNCHANGED <<qvars, not_dequeue>>
    /\ d_pc = "idle"
    /\ d_pc' = "get"
    /\ d_seen' = {}
    /\ d_ret' = NoReturn

(* _queue.get() returns the least entry: lines 209-227 *)
DequeueTake ==
    /\ UNCHANGED not_dequeue
    /\ d_pc = "get"
    /\ \E e \in BagToSet(queue) :
         /\ IsHead(e)
         /\ IF e.id \notin items_map
               THEN \* cancelled: continue
                    /\ queue' = QueueGet(queue, e)
                    /\ UNCHANGED <<item, processing, dvars>>
               ELSE IF ScheduledLater(e.id)
               THEN \* put back, then asyncio.sleep(1)
                    /\ queue' = QueuePut(QueueGet(queue, e), e)
                    /\ d_pc' = "sleep"
                    /\ d_seen' = d_seen \cup {e.id}
                    /\ UNCHANGED <<item, processing, d_ret>>
               ELSE IF e.id \in processing
               THEN \* already being processed: continue
                    /\ queue' = QueueGet(queue, e)
                    /\ UNCHANGED <<item, processing, dvars>>
               ELSE /\ queue' = QueueGet(queue, e)
                    /\ UNCHANGED d_seen
                    /\ IF lock = 0
                          THEN /\ MarkProcessing(e.id)
                               /\ d_pc' = "idle"
                               /\ d_ret' = Returned("item", e)
                          ELSE /\ d_pc' = "wait_lock"
                               /\ d_ret' = Returned("taken", e)
                               /\ UNCHANGED <<item, processing>>
    /\ UNCHANGED <<now, created, items_map, lock, pc, witem, wresult, host_put, attempts,
                   callbacks, all_retryable, term_count, api_completes, last_failure>>

(* asyncio.sleep(1) returns: continue *)
DequeueWake ==
    /\ UNCHANGED <<qvars, not_dequeue>>
    /\ d_pc = "sleep"
    /\ d_pc' = "get"
    /\ UNCHANGED <<d_seen, d_ret>>

(* the lock is acquired: lines 222-227 *)
DequeueReturn ==
    /\ UNCHANGED not_dequeue
    /\ d_pc = "wait_lock"
    /\ lock = 0
    /\ MarkProcessing(d_ret.id)
    /\ d_pc' = "idle"
    /\ d_ret' = [d_ret EXCEPT !.kind = "item"]
    /\ UNCHANGED d_seen
    /\ UNCHANGED <<now, created, items_map, queue, lock, pc, witem, wresult, host_put, attempts,
                   callbacks, all_retryable, term_count, api_completes, last_failure>>

(* wait_for(_queue.get(), timeout=1.0) times out on an empty queue: return None *)
DequeueTimeout ==
    /\ UNCHANGED <<qvars, not_dequeue>>
    /\ d_pc = "get"
    /\ queue = EmptyBag
    /\ d_pc' = "idle"
    /\ d_ret' = ReturnedNone
    /\ UNCHANGED d_seen

DequeueStep ==
    \/ DequeueCall
    \/ DequeueTake
    \/ DequeueWake
    \/ DequeueReturn
    \/ DequeueTimeout

OrderStep ==
    \/ \E p \in OrderPriorities, o \in OrderOffsets : Enqueue(p, o)
    \/ EnqueuePutResume
    \/ \E i \in ItemIds : Cancel(i)

(***************************************************************************)
(* EngagementPipeline (agents/engagement_pipeline.py) and the skills it    *)
(* chains.  Scores are in thousandths, CTS scores in ten-thousandths.       *)
(***************************************************************************)
max_length == 10000

TextLengths == {1, max_length, max_length + 1}
Platforms == {"reddit", "other"}
LlmOutcomes == {"ok", "fail"}
LlmRiskScores == {100, 150, 500, 800}
LlmConfidences == {320, 900}
LlmIntensities == {300, 800}
CtaLevels == 0..3

Absent == [set |-> FALSE]

(* SignalDetectionInput: 1 <= len(text) <= 10000, 1 <= len(platform) <= 50 *)
SignalInputValid(text) == text.len >= 1 /\ text.len <= max_length

(* ResponseGenerationInput: the same bound on text, platform in the Platform literal *)
ResponseInputValid(text, platform) ==
    text.len >= 1 /\ text.len <= max_length /\ platform \in {"reddit", "twitter", "quora"}

(* SignalDetectionSkill._handle_error *)
SignalFallback == [set |-> TRUE, problem_category |-> "other", emotional_intensity |-> 500,
                   confidence |-> 0]

SignalFromLlm(intensity, confidence) ==
    [set |-> TRUE, problem_category |-> "other", emotional_intensity |-> intensity,
     confidence |-> confidence]

(* RiskScoringSkill._determine_risk_level *)
DetermineRiskLevel(risk_score) ==
    IF risk_score >= 700 THEN "high" ELSE IF risk_score >= 300 THEN "medium" ELSE "low"

(* RiskScoringSkill._create_crisis_output *)
CrisisOutput == [set |-> TRUE, risk_level |-> "blocked", risk_score |-> 1000]

(* RiskScoringSkill._create_llm_output *)
LlmRiskOutput(risk_score) ==
    [set |-> TRUE, risk_level |-> DetermineRiskLevel(risk_score), risk_score |-> risk_score]

(* RiskScoringSkill._create_fallback_output, for a category without extra weight *)
FallbackRiskOutput(signal) ==
    LET risk_score == IF signal.emotional_intensity < 990 THEN signal.emotional_intensity ELSE 990
    IN [set |-> TRUE, risk_level |-> DetermineRiskLevel(risk_score), risk_score |-> risk_score]

(* round(x, n) of Python for x >= 0 in units of which unit is 10^-n: the nearest
   multiple of unit; when x lies half-way in decimal the binary value of the float
   decides, so either neighbour can be the result *)
RoundTo(x, unit) ==
    LET lo == (x \div unit) * unit
        r == x % unit
    IN  IF 2 * r < unit THEN {lo}
        ELSE IF 2 * r > unit THEN {lo + unit}
        ELSE {lo, lo + unit}

(* cts_decision/calculator.py: calculate_cts, the results round(cts_score, 4) can
   have, in ten-thousandths; the sum is formed in hundred-thousandths *)
CalculateCts(signal_confidence, risk_score, cta_level) ==
    {v \div 10 :
        v \in RoundTo(signal_confidence * 40 + (1000 - risk_score) * 30
                         + (3 - cta_level) * 10000, 10)}

(* cts_decision/calculator.py: determine_auto_post_eligibility *)
DetermineAutoPost(cts_score, risk_level, cta_level) ==
    ~(cts_score < 7000) /\ risk_level = "low" /\ ~(cta_level > 1)

PInit ==
    /\ p_pc = "idle"
    /\ p_text = [crisis |-> FALSE, len |-> 1]
    /\ p_platform = "reddit"
    /\ p_signal = Absent
    /\ p_risk = Absent
    /\ p_responses = Absent
    /\ p_cta = Absent
    /\ p_cts = Absent
    /\ p_error = FALSE
    /\ p_blocked = FALSE
    /\ p_first_gate = "none"
    /\ p_llm_failed = FALSE

(* an LLM request is sent: history *)
LlmCalled(outcome) ==
    /\ p_first_gate' = IF p_first_gate = "none" THEN "llm" ELSE p_first_gate
    /\ p_llm_failed' = (p_llm_failed \/ outcome = "fail")

(* CrisisDetector.detect is evaluated: history *)
DetectorEvaluated ==
    p_first_gate' = IF p_first_gate = "none" THEN "detector" ELSE p_first_gate

(* EngagementPipeline.run / run_async: the initial state, entry point signal_detection *)
PipelineRun(crisis, len, platform) ==
    /\ UNCHANGED not_pipeline
    /\ p_pc \in {"idle", "END"}
    /\ p_text' = [crisis |-> crisis, len |-> len]
    /\ p_platform' = platform
    /\ p_signal' = Absent
    /\ p_risk' = Absent
    /\ p_responses' = Absent
    /\ p_cta' = Absent
    /\ p_cts' = Absent
    /\ p_error' = FALSE
    /\ p_blocked' = FALSE
    /\ p_first_gate' = "none"
    /\ p_llm_failed' = FALSE
    /\ p_pc' = "signal_detection"

(* _run_signal_detection and _check_signal_error *)
RunSignalDetection(outcome, intensity, confidence) ==
    /\ UNCHANGED not_pipeline
    /\ p_pc = "signal_detection"
    /\ IF ~SignalInputValid(p_text)
          THEN \* the input model raises: signal None, error set, edge to END
               /\ p_signal' = Absent
               /\ p_error' = TRUE
               /\ p_pc' = "END"
               /\ UNCHANGED <<p_first_gate, p_llm_failed>>
          ELSE /\ LlmCalled(outcome)
               /\ p_signal' = IF outcome = "ok" THEN SignalFromLlm(intensity, confidence)
                                                ELSE SignalFallback
               /\ p_error' = FALSE
               /\ p_pc' = "risk_scoring"
    /\ UNCHANGED <<p_text, p_platform, p_risk, p_responses, p_cta, p_cts, p_blocked>>

(* _run_risk_scoring (RiskScoringSkill.analyze) and _check_risk_result *)
RunRiskScoring(outcome, risk_score) ==
    /\ UNCHANGED not_pipeline
    /\ p_pc = "risk_scoring"
    /\ IF p_text.crisis
          THEN /\ DetectorEvaluated
               /\ p_risk' = CrisisOutput
               /\ p_blocked' = TRUE
               /\ p_error' = FALSE
               /\ p_pc' = "handle_blocked"
               /\ UNCHANGED p_llm_failed
          ELSE \* no crisis: the detector is followed by an LLM call
               /\ DetectorEvaluated
               /\ p_llm_failed' = (p_llm_failed \/ outcome = "fail")
               /\ p_risk' = IF outcome = "ok" THEN LlmRiskOutput(risk_score)
                                              ELSE FallbackRiskOutput(p_signal)
               /\ p_blocked' = FALSE
               /\ p_error' = FALSE
               /\ p_pc' = "response_generation"
    /\ UNCHANGED <<p_text, p_platform, p_signal, p_responses, p_cta, p_cts>>

(* a blocked run that goes on to response generation *)
HandleBlockedContinues ==
    /\ UNCHANGED not_pipeline
    /\ p_pc = "handle_blocked"
    /\ p_blocked' = TRUE
    /\ p_pc' = "response_generation"
    /\ UNCHANGED <<p_text, p_platform, p_signal, p_risk, p_responses, p_cta, p_cts, p_error,
                   p_first_gate, p_llm_failed>>

(* _handle_blocked *)
HandleBlocked ==
    /\ UNCHANGED not_pipeline
    /\ p_pc = "handle_blocked"
    /\ p_responses' = Absent
    /\ p_cta' = Absent
    /\ p_cts' = [set |-> TRUE, cts_score |-> 0, can_auto_post |-> FALSE, requires_review |-> FALSE]
    /\ p_blocked' = TRUE
    /\ p_pc' = "END"
    /\ UNCHANGED <<p_text, p_platform, p_signal, p_risk, p_error, p_first_gate, p_llm_failed>>

(* a selection that does not look at the risk level *)
SelectedTypeContextual(risk_level) == "contextual"

(* ResponseGenerationSkill._select_response *)
SelectedType(risk_level) ==
    IF risk_level = "high" THEN "value_first"
    ELSE IF risk_level = "medium" THEN "soft_cta" ELSE "contextual"

(* _run_response_generation and _check_response_error; an LLM failure yields the
   fallback responses (ResponseGenerationSkill._handle_error) *)
RunResponseGeneration(outcome, empty) ==
    /\ UNCHANGED not_pipeline
    /\ p_pc = "response_generation"
    /\ IF ~ResponseInputValid(p_text, p_platform)
          THEN /\ p_responses' = Absent
               /\ p_error' = TRUE
               /\ p_pc' = "END"
               /\ UNCHANGED <<p_first_gate, p_llm_failed>>
          ELSE /\ LlmCalled(outcome)
               /\ p_responses' =
                     IF outcome = "ok"
                        THEN [set |-> TRUE,
                              selected_type |-> SelectedType(IF p_risk.risk_level = "blocked"
                                                               THEN "high" ELSE p_risk.risk_level),
                              empty |-> empty, fallback_used |-> FALSE]
                        ELSE [set |-> TRUE, selected_type |-> "value_first", empty |-> FALSE,
                              fallback_used |-> TRUE]
               /\ p_error' = FALSE
               /\ p_pc' = "cta_classifier"
    /\ UNCHANGED <<p_text, p_platform, p_signal, p_risk, p_cta, p_cts, p_blocked>>

(* _run_cta_classifier (classify_sync: rules only) and _check_cta_error *)
RunCtaClassifier(cta_level) ==
    /\ UNCHANGED not_pipeline
    /\ p_pc = "cta_classifier"
    /\ IF p_responses.empty
          THEN \* CTAClassifierInput(response_text="") raises
               /\ p_cta' = Absent
               /\ p_error' = TRUE
               /\ p_pc' = "END"
          ELSE /\ p_cta' = [set |-> TRUE, cta_level |-> cta_level]
               /\ p_error' = FALSE
               /\ p_pc' = "cts_decision"
    /\ UNCHANGED <<p_text, p_platform, p_signal, p_risk, p_responses, p_cts, p_blocked,
                   p_first_gate, p_llm_failed>>

(* _run_cts_decision: the skill decides on the score of calculate_cts, and the
   state gets round(output.cts_score, 2) *)
RunCtsDecision ==
    /\ UNCHANGED not_pipeline
    /\ p_pc = "cts_decision"
    /\ \E cts_score \in CalculateCts(p_signal.confidence, p_risk.risk_score, p_cta.cta_level) :
       \E reported \in RoundTo(cts_score, 100) :
          LET can_auto_post == DetermineAutoPost(cts_score, p_risk.risk_level, p_cta.cta_level)
          IN p_cts' = [set |-> TRUE, cts_score |-> reported, can_auto_post |-> can_auto_post,
                       requires_review |-> ~can_auto_post]
    /\ p_error' = FALSE
    /\ p_pc' = "END"
    /\ UNCHANGED <<p_text, p_platform, p_signal, p_risk, p_responses, p_cta, p_blocked,
                   p_first_gate, p_llm_failed>>

PipelineStep ==
    \/ \E crisis \in BOOLEAN, len \in TextLengths, platform \in Platforms :
          PipelineRun(crisis, len, platform)
    \/ \E outcome \in LlmOutcomes, intensity \in LlmIntensities, confidence \in LlmConfidences :
          RunSignalDetection(outcome, intensity, confidence)
    \/ \E outcome \in LlmOutcomes, risk_score \in LlmRiskScores : RunRiskScoring(outcome, risk_score)
    \/ HandleBlocked
    \/ \E outcome \in LlmOutcomes, empty \in BOOLEAN : RunResponseGeneration(outcome, empty)
    \/ \E cta_level \in CtaLevels : RunCtaClassifier(cta_level)
    \/ RunCtsDecision

(***************************************************************************)
(* RateLimitManager (automation/limits.py) and AutoPostEligibility         *)
(* (automation/eligibility.py), for one organization.  Scores are in       *)
(* thousandths, times in seconds.                                          *)
(***************************************************************************)
MaxClock == 3600
ClockStep == 1200
MaxRecords == 3

HOUR == 3600
DAY == 86400

LimitPlatforms == {"reddit", "twitter"}
Targets == {"", "python", "Spam"}
(* where the posts of the model go: a subreddit only on reddit *)
RecordTargets == [reddit |-> {"", "python"}, twitter |-> {""}]

(* str.lower() on the targets of the model *)
Lower(t) == IF t = "Spam" THEN "spam" ELSE t

(* PlatformLimits *)
PlatformLimits(posts_per_hour, posts_per_day, min_gap_seconds, subreddit_gap_seconds, enabled) ==
    [posts_per_hour |-> posts_per_hour, posts_per_day |-> posts_per_day,
     min_gap_seconds |-> min_gap_seconds, subreddit_gap_seconds |-> subreddit_gap_seconds,
     enabled |-> enabled]

(* OrgLimits *)
OrgLimits(enabled, hourly, daily, platform_limits, blacklist) ==
    [auto_post_enabled |-> enabled, max_hourly_auto_posts |-> hourly,
     max_daily_auto_posts |-> daily, min_cts_score |-> 700, max_cta_level |-> 1,
     allowed_risk_levels |-> {"low"}, platform_limits |-> platform_limits,
     blacklisted_subreddits |-> blacklist]

NoPlatformLimits == [x \in {} |-> 0]

(* DEFAULT_ORG_LIMITS *)
DEFAULT_ORG_LIMITS ==
    OrgLimits(TRUE, 10, 50,
              [x \in {"reddit", "twitter"} |->
                  IF x = "reddit" THEN PlatformLimits(10, 50, 60, 300, TRUE)
                                  ELSE PlatformLimits(15, 100, 30, 0, TRUE)],
              {})

(* the limits an organization is given in the model *)
LimitProfiles ==
    {OrgLimits(e, 2, 3, NoPlatformLimits, {}) : e \in BOOLEAN}
    \cup {OrgLimits(TRUE, 2, 3, [x \in {"reddit"} |-> PlatformLimits(1, 2, 60, 300, pe)],
                    {"Spam"}) : pe \in BOOLEAN}
    \cup {OrgLimits(TRUE, 2, 3, [x \in {"reddit"} |-> PlatformLimits(2, 3, 60, 1500, TRUE)],
                    {})}

(* the limits a caller passes to AutoPostEligibility.check in the model *)
PassedProfiles ==
    {OrgLimits(e, 2, 3, NoPlatformLimits, {}) : e \in BOOLEAN}
    \cup {OrgLimits(TRUE, 2, 3, [x \in {"reddit"} |-> PlatformLimits(1, 2, 60, 300, TRUE)],
                    {"Spam"})}

Unset == [unset |-> TRUE]

(* RateLimitManager.get_org_limits *)
GetOrgLimits(stored) == IF stored = Unset THEN DEFAULT_ORG_LIMITS ELSE stored

(* ts > utcnow - width, the window test of check_limits and record_post *)
InWindowInclusive(ts, utcnow, width) == ts >= utcnow - width

InWindow(ts, utcnow, width) == ts > utcnow - width

Indices(history) == 1..Len(history)

(* sum(1 for ... in history if ...): the number of entries among ks *)
Count(ks) == Cardinality(ks)

(* max(ts for ...): the latest timestamp among the entries ks of history *)
MaxTs(history, ks) ==
    CHOOSE t \in {history[k].ts : k \in ks} : \A k \in ks : history[k].ts <= t

(* check_limits without its first gate *)
CheckLimitsUngated(limits, history, utcnow, platform, target) ==
    LET has_platform == platform \in DOMAIN limits.platform_limits
        platform_limits == limits.platform_limits[platform]
        Where(P(_)) == {k \in Indices(history) : P(history[k])}
        InHour(e) == InWindow(e.ts, utcnow, HOUR)
        InDay(e) == InWindow(e.ts, utcnow, DAY)
        OnPlatform(e) == e.platform = platform
        InHourOnPlatform(e) == InHour(e) /\ OnPlatform(e)
        InDayOnPlatform(e) == InDay(e) /\ OnPlatform(e)
        OnTarget(e) == e.platform = platform /\ Lower(e.target) = Lower(target)
    IN IF has_platform /\ ~platform_limits.enabled THEN "platform_disabled"
       ELSE IF Count(Where(InHour)) >= limits.max_hourly_auto_posts THEN "hourly"
       ELSE IF Count(Where(InDay)) >= limits.max_daily_auto_posts THEN "daily"
       ELSE IF has_platform /\ Count(Where(InHourOnPlatform)) >= platform_limits.posts_per_hour
            THEN "platform_hourly"
       ELSE IF has_platform /\ Count(Where(InDayOnPlatform)) >= platform_limits.posts_per_day
            THEN "platform_daily"
       ELSE IF has_platform /\ Where(OnPlatform) # {}
               /\ utcnow - MaxTs(history, Where(OnPlatform)) < platform_limits.min_gap_seconds
            THEN "min_gap"
       ELSE IF has_platform /\ target # "" /\ platform = "reddit"
               /\ platform_limits.subreddit_gap_seconds > 0 /\ Where(OnTarget) # {}
               /\ utcnow - MaxTs(history, Where(OnTarget)) < platform_limits.subreddit_gap_seconds
            THEN "subreddit_gap"
       ELSE IF target # "" /\ Lower(target) \in {Lower(b) : b \in limits.blacklisted_subreddits}
            THEN "blacklist"
       ELSE "ok"

(* check_limits with its first gate evaluated after the other checks *)
CheckLimitsGateLast(limits, history, utcnow, platform, target) ==
    LET reason == CheckLimitsUngated(limits, history, utcnow, platform, target)
    IN  IF reason # "ok" THEN reason
        ELSE IF ~limits.auto_post_enabled THEN "disabled"
        ELSE "ok"

(* RateLimitManager.check_limits: the reason it returns; allowed iff the reason is "ok" *)
CheckLimits(limits, history, utcnow, platform, target) ==
    IF ~limits.auto_post_enabled THEN "disabled"
    ELSE CheckLimitsUngated(limits, history, utcnow, platform, target)

(* ResponseData *)
Response(cts_score, risk_level, cta_level, platform, can_auto_post, status, subreddit) ==
    [cts_score |-> cts_score, risk_level |-> risk_level, cta_level |-> cta_level,
     platform |-> platform, can_auto_post |-> can_auto_post, status |-> status,
     subreddit |-> subreddit]

Responses ==
    {Response(900, "low", 0, "reddit", TRUE, "pending", "python"),
     Response(900, "low", 0, "twitter", TRUE, "approved", ""),
     Response(650, "low", 0, "reddit", TRUE, "pending", ""),
     Response(900, "high", 2, "reddit", FALSE, "pending", "python"),
     Response(900, "low", 0, "reddit", TRUE, "posted", ""),
     Response(900, "low", 0, "reddit", TRUE, "pending", "Spam")}

(* RateLimitManager.get_time_until_allowed *)
GetTimeUntilAllowed(limits, history, utcnow, platform, target) ==
    LET has_platform == platform \in DOMAIN limits.platform_limits
        platform_limits == limits.platform_limits[platform]
        on == {k \in Indices(history) : history[k].platform = platform}
        sub == {k \in on : Lower(history[k].target) = Lower(target)}
        hour == {k \in Indices(history) : InWindow(history[k].ts, utcnow, HOUR)}
        oldest_hourly == CHOOSE t \in {history[k].ts : k \in hour} :
                             \A k \in hour : t <= history[k].ts
        gap_wait == platform_limits.min_gap_seconds - (utcnow - MaxTs(history, on))
        subreddit_wait ==
            platform_limits.subreddit_gap_seconds - (utcnow - MaxTs(history, sub))
        hourly_reset == oldest_hourly + HOUR - utcnow
        wait_times ==
            (IF on # {} /\ has_platform /\ gap_wait > 0 THEN {gap_wait} ELSE {})
            \cup (IF target # "" /\ platform = "reddit" /\ has_platform /\ sub # {}
                     /\ subreddit_wait > 0
                  THEN {subreddit_wait} ELSE {})
            \cup (IF Count(hour) >= limits.max_hourly_auto_posts /\ hour # {}
                     /\ hourly_reset > 0
                  THEN {hourly_reset} ELSE {})
    IN  IF CheckLimits(limits, history, utcnow, platform, target) = "ok" THEN 0
        ELSE IF wait_times = {} THEN 0
        ELSE CHOOSE t \in wait_times : \A u \in wait_times : t <= u

NoRetryAfter == [set |-> FALSE]

(* EligibilityResult *)
Result(eligible, checks_passed, checks_failed, requires_review, retry_after) ==
    [eligible |-> eligible, checks_passed |-> checks_passed, checks_failed |-> checks_failed,
     requires_review |-> requires_review, retry_after |-> retry_after]

(* checks 3 to 8 of AutoPostEligibility.check in the order of the code: the name
   appended to checks_failed or else the name appended to checks_passed *)
AccumulatedChecks(response, org_limits, stored, history, utcnow) ==
    LET Outcome(failed, passed, fails) == [failed |-> failed, passed |-> passed, fails |-> fails]
    IN  << Outcome("pipeline_can_auto_post", "pipeline_can_auto_post", ~response.can_auto_post),
           Outcome("cts_score", "cts_score", response.cts_score < org_limits.min_cts_score),
           Outcome("risk_level", "risk_level",
                   response.risk_level \notin org_limits.allowed_risk_levels),
           Outcome("cta_level", "cta_level", response.cta_level > org_limits.max_cta_level),
           Outcome("rate_limits", "rate_limits",
                   CheckLimits(GetOrgLimits(stored), history, utcnow, response.platform,
                               response.subreddit) # "ok"),
           Outcome("subreddit_blacklist", "subreddit_not_blacklisted",
                   /\ response.subreddit # ""
                   /\ Lower(response.subreddit)
                         \in {Lower(b) : b \in org_limits.blacklisted_subreddits}) >>

AnyStatus == {"pending", "approved", "posted"}

(* the statuses check 2 lets through *)
AutoPostStatuses == {"pending", "approved"}

AnyFailedCheck ==
    {"cts_score", "cta_level", "pipeline_can_auto_post", "risk_level", "rate_limits",
     "subreddit_blacklist"}

(* the failed checks that make requires_review true *)
ReviewChecks == {"cts_score", "cta_level", "pipeline_can_auto_post"}

(* AutoPostEligibility.check *)
EligibilityResult(response, org_limits, stored, history, utcnow) ==
    IF ~org_limits.auto_post_enabled
    THEN Result(FALSE, <<>>, <<"org_auto_post_enabled">>, FALSE, NoRetryAfter)
    ELSE IF response.status \notin AutoPostStatuses
    THEN Result(FALSE, <<"org_auto_post_enabled">>, <<"response_status">>, FALSE, NoRetryAfter)
    ELSE
      LET checks == AccumulatedChecks(response, org_limits, stored, history, utcnow)
          Failed(c) == c.fails
          Passed(c) == ~c.fails
          failed == SelectSeq(checks, Failed)
          passed == SelectSeq(checks, Passed)
          checks_failed == [k \in 1..Len(failed) |-> failed[k].failed]
          checks_passed == <<"org_auto_post_enabled", "response_status">>
                               \o [k \in 1..Len(passed) |-> passed[k].passed]
          names == {checks_failed[k] : k \in 1..Len(checks_failed)}
          retry_after ==
              IF "rate_limits" \in names
              THEN [set |-> TRUE,
                    seconds |-> GetTimeUntilAllowed(GetOrgLimits(stored), history, utcnow,
                                                    response.platform, response.subreddit)]
              ELSE NoRetryAfter
      IN  Result(checks_failed = <<>>, checks_passed, checks_failed,
                 names \cap ReviewChecks # {},
                 retry_after)

(* the checks that failed; eligible iff there is none *)
ChecksFailed(response, org_limits, stored, history, utcnow) ==
    LET failed == EligibilityResult(response, org_limits, stored, history, utcnow).checks_failed
    IN  {failed[k] : k \in 1..Len(failed)}

NoCall == [op |-> "none"]

LInit ==
    /\ l_now = 0
    /\ l_limits = Unset
    /\ l_history = <<>>
    /\ l_log = <<>>
    /\ l_call = NoCall

LTick ==
    /\ UNCHANGED not_limits
    /\ l_call = NoCall
    /\ l_now + ClockStep <= MaxClock
    /\ l_now' = l_now + ClockStep
    /\ l_call' = NoCall
    /\ UNCHANGED <<l_limits, l_history, l_log>>

(* RateLimitManager.set_org_limits *)
SetOrgLimits(limits) ==
    /\ UNCHANGED not_limits
    /\ l_call = NoCall
    /\ l_limits' = limits
    /\ l_call' = NoCall
    /\ UNCHANGED <<l_now, l_history, l_log>>

(* RateLimitManager.record_post: append, then drop the entries older than 24 hours *)
RecordPost(platform, target) ==
    /\ UNCHANGED not_limits
    /\ l_call = NoCall
    /\ Len(l_log) < MaxRecords
    /\ LET appended == Append(l_history, [ts |-> l_now, platform |-> platform, target |-> target])
           Fresh(e) == InWindow(e.ts, l_now, DAY)
       IN l_history' = SelectSeq(appended, Fresh)
    /\ l_log' = Append(l_log, l_now)
    /\ l_call' = NoCall
    /\ UNCHANGED <<l_now, l_limits>>

(* the call returns to its caller *)
LReturn ==
    /\ UNCHANGED not_limits
    /\ l_call # NoCall
    /\ l_call' = NoCall
    /\ UNCHANGED <<l_now, l_limits, l_history, l_log>>

(* a call of RateLimitManager.check_limits returns *)
CheckLimitsCall(platform, target) ==
    /\ UNCHANGED not_limits
    /\ l_call = NoCall
    /\ LET reason == CheckLimits(GetOrgLimits(l_limits), l_history, l_now, platform, target)
       IN l_call' = [op |-> "check_limits", platform |-> platform, target |-> target,
                     allowed |-> reason = "ok", reason |-> reason]
    /\ UNCHANGED <<l_now, l_limits, l_history, l_log>>

(* a call of RateLimitManager.get_time_until_allowed returns *)
TimeUntilAllowedCall(platform, target) ==
    /\ UNCHANGED not_limits
    /\ l_call = NoCall
    /\ l_call' = [op |-> "get_time_until_allowed", platform |-> platform, target |-> target,
                  seconds |-> GetTimeUntilAllowed(GetOrgLimits(l_limits), l_history, l_now,
                                                  platform, target)]
    /\ UNCHANGED <<l_now, l_limits, l_history, l_log>>

(* a check that would also record the response as posted *)
EligibilityCheckRecording(response, org_limits) ==
    /\ UNCHANGED not_limits
    /\ l_call = NoCall
    /\ LET result == EligibilityResult(response, org_limits, l_limits, l_history, l_now)
       IN l_call' = [op |-> "check", response |-> response, org_limits |-> org_limits,
                     enabled |-> org_limits.auto_post_enabled
                                    /\ GetOrgLimits(l_limits).auto_post_enabled,
                     eligible |-> result.eligible, result |-> result]
    /\ l_history' = Append(l_history, [ts |-> l_now, platform |-> response.platform,
                                       target |-> response.subreddit])
    /\ UNCHANGED <<l_now, l_limits, l_log>>

(* a call of AutoPostEligibility.check returns *)
EligibilityCheck(response, org_limits) ==
    /\ UNCHANGED not_limits
    /\ l_call = NoCall
    /\ LET result == EligibilityResult(response, org_limits, l_limits, l_history, l_now)
       IN l_call' = [op |-> "check", response |-> response, org_limits |-> org_limits,
                     enabled |-> org_limits.auto_post_enabled
                                    /\ GetOrgLimits(l_limits).auto_post_enabled,
                     eligible |-> result.eligible, result |-> result]
    /\ UNCHANGED <<l_now, l_limits, l_history, l_log>>

LimitsStep ==
    \/ LTick
    \/ \E limits \in LimitProfiles : SetOrgLimits(limits)
    \/ \E platform \in LimitPlatforms : \E target \in RecordTargets[platform] :
          RecordPost(platform, target)
    \/ LReturn
    \/ \E platform \in LimitPlatforms, target \in Targets : CheckLimitsCall(platform, target)
    \/ \E platform \in LimitPlatforms, target \in Targets :
          TimeUntilAllowedCall(platform, target)
    \/ \E response \in Responses, org_limits \in PassedProfiles :
          EligibilityCheck(response, org_limits)

(***************************************************************************)
(* CrawlProcessor: process_crawl_results and _save_to_supabase, called by  *)
(* the crawl scheduler's result callback for each job run, all on one      *)
(* event loop; a call is suspended only while it awaits pipeline.run_async *)
(***************************************************************************)
MaxPosts == 2
MaxCrawls == 2
MaxFaults == 1

CrawlRuns == 1..2

(* the tables in the order _save_to_supabase inserts into them *)
Tables == <<"posts", "signals", "risk_scores", "responses", "engagement_queue">>

TableNames == {Tables[k] : k \in 1..Len(Tables)}

CrawledPost(url, content) == [external_url |-> url, content |-> content]

CrawledPosts ==
    {CrawledPost("a", "text"), CrawledPost("b", "text"),
     CrawledPost("", "text"), CrawledPost("a", "")}

NoPost == CrawledPost("", "")

CrawlResults == UNION {[1..n -> CrawledPosts] : n \in 1..MaxPosts}

(* what run_async returns: which blocks of the response are not None *)
PipelineResult(blocked, signal, risk, responses, cts, error) ==
    [blocked |-> blocked, signal |-> signal, risk |-> risk, responses |-> responses,
     cts |-> cts, error |-> error]

PipelineResults ==
    {PipelineResult(FALSE, TRUE, TRUE, TRUE, TRUE, FALSE),     \* every node completed
     PipelineResult(TRUE, TRUE, TRUE, FALSE, TRUE, FALSE),     \* handle_blocked
     PipelineResult(FALSE, FALSE, FALSE, FALSE, FALSE, TRUE),  \* signal detection failed
     PipelineResult(FALSE, TRUE, FALSE, FALSE, FALSE, TRUE),   \* risk scoring failed
     PipelineResult(FALSE, TRUE, TRUE, FALSE, FALSE, TRUE),    \* response generation failed
     PipelineResult(FALSE, TRUE, TRUE, TRUE, FALSE, TRUE),     \* cta classifier failed
     PipelineResult(FALSE, TRUE, TRUE, TRUE, TRUE, TRUE)}      \* cts decision failed

NewStats(n) ==
    [total_posts |-> n, new_posts |-> 0, duplicates |-> 0, processed |-> 0, errors |-> 0,
     queued |-> 0]

EmptyStore == [t \in TableNames |-> {}]

CInit ==
    /\ c_store = EmptyStore
    /\ c_uuid = 0
    /\ c_pc = [r \in CrawlRuns |-> "idle"]
    /\ c_posts = [r \in CrawlRuns |-> <<>>]
    /\ c_post = [r \in CrawlRuns |-> NoPost]
    /\ c_stats = [r \in CrawlRuns |-> NewStats(0)]
    /\ c_returned = 0
    /\ c_faults = 0

(* client.table("posts").select("id").eq("external_url", url).execute().data *)
Existing(url) == {row \in c_store["posts"] : row.external_url = url}

(* pipeline_result.get(block, {}) is None for a block the pipeline left None, and
   the .get on it raises: the number of inserts _save_to_supabase reaches *)
Reaches(result) ==
    IF ~result.signal THEN 1
    ELSE IF ~result.risk THEN 2
    ELSE IF ~result.responses THEN 3
    ELSE IF ~result.cts THEN 4
    ELSE 5

(* the number of inserts that are executed: the insert number fault raises
   (0: none raises) *)
Inserted(result, fault) ==
    IF fault # 0 /\ fault <= Reaches(result) THEN fault - 1 ELSE Reaches(result)

(* the row an insert adds to table number k for the post of id post_id *)
Row(k, post_id, post) ==
    IF k = 1 THEN [id |-> post_id, external_url |-> post.external_url]
    ELSE [post_id |-> post_id]

(* the store after the first n inserts of _save_to_supabase *)
SaveToSupabase(store, post_id, post, n) ==
    [t \in TableNames |->
        IF \E k \in 1..n : Tables[k] = t
        THEN store[t] \cup {Row(CHOOSE k \in 1..n : Tables[k] = t, post_id, post)}
        ELSE store[t]]

Bump(stats, field) == [stats EXCEPT ![field] = @ + 1]

(* process_crawl_results is called with a crawl result *)
CrawlCall(r, posts) ==
    /\ UNCHANGED not_crawl
    /\ c_pc[r] = "idle"
    /\ c_returned + Cardinality({q \in CrawlRuns : c_pc[q] # "idle"}) < MaxCrawls
    /\ c_pc' = [c_pc EXCEPT ![r] = "loop"]
    /\ c_posts' = [c_posts EXCEPT ![r] = posts]
    /\ c_stats' = [c_stats EXCEPT ![r] = NewStats(Len(posts))]
    /\ UNCHANGED <<c_store, c_uuid, c_post, c_returned, c_faults>>

(* the for loop takes the next post: skipped without url or content, counted as a
   duplicate when the store has its url, else handed to the pipeline *)
CrawlVisit(r) ==
    /\ UNCHANGED not_crawl
    /\ c_pc[r] = "loop"
    /\ c_posts[r] # <<>>
    /\ LET post == Head(c_posts[r])
       IN  /\ c_posts' = [c_posts EXCEPT ![r] = Tail(@)]
           /\ IF post.external_url = "" \/ post.content = ""
              THEN UNCHANGED <<c_pc, c_post, c_stats>>
              ELSE IF Existing(post.external_url) # {}
              THEN /\ c_stats' = [c_stats EXCEPT ![r] = Bump(@, "duplicates")]
                   /\ UNCHANGED <<c_pc, c_post>>
              ELSE /\ c_stats' = [c_stats EXCEPT ![r] = Bump(@, "new_posts")]
                   /\ c_post' = [c_post EXCEPT ![r] = post]
                   /\ c_pc' = [c_pc EXCEPT ![r] = "pipeline"]
    /\ UNCHANGED <<c_store, c_uuid, c_returned, c_faults>>

(* run_async raises: the except clause counts an error *)
CrawlPipelineRaises(r) ==
    /\ UNCHANGED not_crawl
    /\ c_pc[r] = "pipeline"
    /\ c_stats' = [c_stats EXCEPT ![r] = Bump(@, "errors")]
    /\ c_pc' = [c_pc EXCEPT ![r] = "loop"]
    /\ c_post' = [c_post EXCEPT ![r] = NoPost]
    /\ UNCHANGED <<c_store, c_uuid, c_posts, c_returned, c_faults>>

(* run_async returns: a blocked post is skipped, any other is saved; the insert
   number fault raises *)
CrawlPipelineReturns(r, result, fault) ==
    /\ UNCHANGED not_crawl
    /\ c_pc[r] = "pipeline"
    /\ fault # 0 => c_faults < MaxFaults
    /\ c_pc' = [c_pc EXCEPT ![r] = "loop"]
    /\ c_post' = [c_post EXCEPT ![r] = NoPost]
    /\ IF result.blocked
       THEN /\ fault = 0
            /\ UNCHANGED <<c_store, c_uuid, c_stats, c_faults>>
       ELSE LET n == Inserted(result, fault)
            IN  /\ c_uuid' = c_uuid + 1
                /\ c_store' = SaveToSupabase(c_store, c_uuid + 1, c_post[r], n)
                /\ c_faults' = IF fault # 0 /\ fault <= Reaches(result)
                               THEN c_faults + 1 ELSE c_faults
                /\ fault # 0 => fault <= Reaches(result)
                /\ c_stats' = [c_stats EXCEPT ![r] =
                        IF n = Len(Tables)
                        THEN Bump(Bump(@, "processed"), "queued")
                        ELSE Bump(@, "errors")]
    /\ UNCHANGED <<c_posts, c_returned>>

(* the loop is over: process_crawl_results returns the stats *)
CrawlReturn(r) ==
    /\ UNCHANGED not_crawl
    /\ c_pc[r] = "loop"
    /\ c_posts[r] = <<>>
    /\ c_pc' = [c_pc EXCEPT ![r] = "idle"]
    /\ c_returned' = c_returned + 1
    /\ UNCHANGED <<c_store, c_uuid, c_posts, c_post, c_stats, c_faults>>

CrawlStep ==
    \E r \in CrawlRuns :
        \/ \E posts \in CrawlResults : CrawlCall(r, posts)
        \/ CrawlVisit(r)
        \/ CrawlPipelineRaises(r)
        \/ \E result \in PipelineResults, fault \in 0..Len(Tables) :
               CrawlPipelineReturns(r, result, fault)
        \/ CrawlReturn(r)

(***************************************************************************)
(* Specifications                                                          *)
(***************************************************************************)
WorkerStep ==
    \E w \in Workers :
       \/ DequeueGet(w)
       \/ DequeueMark(w)
       \/ \E r \in PostResults \cup {ResultWorkerError} : WorkerPost(w, r)
       \/ WorkerComplete(w)
       \/ WorkerCallbackReturn(w)
       \/ WorkerPutResume(w)

HostStep ==
    \/ \E p \in Priorities, o \in ScheduleOffsets : Enqueue(p, o)
    \/ EnqueuePutResume
    \/ \E i \in ItemIds : Cancel(i)

ApiStep ==
    \/ \E p \in Priorities, o \in ScheduleOffsets : Enqueue(p, o)
    \/ HostDequeue
    \/ \E i \in ItemIds, r \in PostResults : ApiComplete(i, r)
    \/ \E i \in ItemIds : Cancel(i)

(***************************************************************************)
(* The auto-post worker: AutoPostWorker.process_eligible_responses and     *)
(* _process_single_response, called by the worker loop, by the periodic    *)
(* task and by trigger_check on one event loop, the posting queue they     *)
(* fill, the poster that empties it and the post_response route.           *)
(***************************************************************************)
MaxResponses == 3

ResponseIds == 1..MaxResponses

(* the calls of process_eligible_responses that can be in progress together *)
WorkerRuns == 1..2

(* AutoPostWorker.batch_size *)
BatchSize == 2

(* PostingQueue max_size *)
WorkerQueueSize == 2

(* calls of the post_response route *)
MaxRoutePosts == 1

(* the organization's limits, as stored in the manager and as fetched by the worker *)
WorkerLimits == OrgLimits(TRUE, 1, 3, NoPlatformLimits, {})

(* the ResponseData built from a fetched row *)
ResponseOf(row) ==
    IF row.id = MaxResponses
    THEN Response(650, "low", 0, "reddit", TRUE, row.status, "python")
    ELSE Response(900, "low", 0, "reddit", TRUE, row.status, "python")

NoRow == [id |-> 0, status |-> "none"]

IdleBatch == [pc |-> "idle", todo |-> <<>>, cur |-> NoRow]

AInit ==
    /\ a_batch = [b \in WorkerRuns |-> IdleBatch]
    /\ a_status = [r \in ResponseIds |-> "pending"]
    /\ a_queue = <<>>
    /\ a_history = <<>>
    /\ a_acked = <<>>
    /\ a_eligible = {}
    /\ a_enqueued = {}

RECURSIVE RowsOf(_, _, _)
(* the first n rows, by id, of the responses in ids, with the status each has now *)
RowsOf(ids, status, n) ==
    IF ids = {} \/ n = 0 THEN <<>>
    ELSE LET r == CHOOSE x \in ids : \A y \in ids : x <= y
         IN <<[id |-> r, status |-> status[r]]>> \o RowsOf(ids \ {r}, status, n - 1)

(* _fetch_responses(batch_size): the responses that wait for a decision *)
FetchResponses(status) ==
    RowsOf({r \in ResponseIds : status[r] \in AutoPostStatuses}, status, BatchSize)

(* RateLimitManager.record_post on the worker's manager *)
WithPost(history, platform, target, response) ==
    LET appended == Append(history, [ts |-> 0, platform |-> platform, target |-> target,
                                     response |-> response])
        Fresh(e) == InWindow(e.ts, 0, DAY)
    IN SelectSeq(appended, Fresh)

(* process_eligible_responses up to the return of _fetch_responses *)
ProcessEligibleResponses(b) ==
    /\ UNCHANGED not_autopost
    /\ a_batch[b].pc = "idle"
    /\ FetchResponses(a_status) # <<>>
    /\ a_batch' = [a_batch EXCEPT ![b] = [pc |-> "loop", todo |-> FetchResponses(a_status),
                                          cur |-> NoRow]]
    /\ UNCHANGED <<a_status, a_queue, a_history, a_acked, a_eligible, a_enqueued>>

(* _process_single_response up to the await of _fetch_org_limits *)
ProcessSingleResponse(b) ==
    /\ UNCHANGED not_autopost
    /\ a_batch[b].pc = "loop"
    /\ a_batch[b].todo # <<>>
    /\ a_batch' = [a_batch EXCEPT ![b] = [pc |-> "limits", todo |-> Tail(a_batch[b].todo),
                                          cur |-> Head(a_batch[b].todo)]]
    /\ UNCHANGED <<a_status, a_queue, a_history, a_acked, a_eligible, a_enqueued>>

(* the loop of process_eligible_responses has ended *)
ProcessReturn(b) ==
    /\ UNCHANGED not_autopost
    /\ a_batch[b].pc = "loop"
    /\ a_batch[b].todo = <<>>
    /\ a_batch' = [a_batch EXCEPT ![b] = IdleBatch]
    /\ UNCHANGED <<a_status, a_queue, a_history, a_acked, a_eligible, a_enqueued>>

(* from the return of _fetch_org_limits: the eligibility check and, for an eligible
   response, PostingQueue.enqueue, up to the await of _update_response_status *)
CheckAndEnqueue(b) ==
    /\ UNCHANGED not_autopost
    /\ a_batch[b].pc = "limits"
    /\ LET row == a_batch[b].cur
           eligibility == EligibilityResult(ResponseOf(row), WorkerLimits, WorkerLimits,
                                            a_history, 0)
       IN IF ~eligibility.eligible
          THEN /\ a_batch' = [a_batch EXCEPT ![b].pc = "loop", ![b].cur = NoRow]
               /\ UNCHANGED <<a_queue, a_eligible, a_enqueued>>
          ELSE /\ a_eligible' = a_eligible \cup {row.id}
               /\ IF Len(a_queue) >= WorkerQueueSize
                  THEN /\ a_batch' = [a_batch EXCEPT ![b].pc = "failed"]
                       /\ UNCHANGED <<a_queue, a_enqueued>>
                  ELSE /\ a_queue' = Append(a_queue, row.id)
                       /\ a_enqueued' = a_enqueued \cup {row.id}
                       /\ a_batch' = [a_batch EXCEPT ![b].pc = "posting"]
    /\ UNCHANGED <<a_status, a_history, a_acked>>

StatusOutcomes == {"ok", "status_raises", "audit_raises"}

(* from the return of _update_response_status(response_id, "posting"): record_post and
   the audit entry; either callback can raise *)
MarkPosting(b, outcome) ==
    /\ UNCHANGED not_autopost
    /\ a_batch[b].pc = "posting"
    /\ LET row == a_batch[b].cur
           response == ResponseOf(row)
       IN IF outcome = "status_raises"
          THEN /\ a_batch' = [a_batch EXCEPT ![b].pc = "failed"]
               /\ UNCHANGED <<a_status, a_history>>
          ELSE /\ a_status' = [a_status EXCEPT ![row.id] = "posting"]
               /\ a_history' = WithPost(a_history, response.platform, response.subreddit,
                                        row.id)
               /\ a_batch' = IF outcome = "ok"
                             THEN [a_batch EXCEPT ![b].pc = "loop", ![b].cur = NoRow]
                             ELSE [a_batch EXCEPT ![b].pc = "failed"]
    /\ UNCHANGED <<a_queue, a_acked, a_eligible, a_enqueued>>

(* the except clause: _update_response_status(response_id, "failed") *)
MarkFailed(b) ==
    /\ UNCHANGED not_autopost
    /\ a_batch[b].pc = "failed"
    /\ a_status' = [a_status EXCEPT ![a_batch[b].cur.id] = "failed"]
    /\ a_batch' = [a_batch EXCEPT ![b].pc = "loop", ![b].cur = NoRow]
    /\ UNCHANGED <<a_queue, a_history, a_acked, a_eligible, a_enqueued>>

(* a queue worker hands the oldest item to the poster *)
PosterPosts(success) ==
    /\ UNCHANGED not_autopost
    /\ a_queue # <<>>
    /\ a_queue' = Tail(a_queue)
    /\ a_acked' = IF success THEN Append(a_acked, Head(a_queue)) ELSE a_acked
    /\ UNCHANGED <<a_batch, a_status, a_history, a_eligible, a_enqueued>>

RoutePosts(history) == Len(SelectSeq(history, LAMBDA e : e.target = ""))

(* the post_response route: the poster is called, then record_post *)
PostResponse(r, success) ==
    /\ UNCHANGED not_autopost
    /\ RoutePosts(a_history) < MaxRoutePosts
    /\ a_acked' = IF success THEN Append(a_acked, r) ELSE a_acked
    /\ a_history' = WithPost(a_history, "reddit", "", r)
    /\ UNCHANGED <<a_batch, a_status, a_queue, a_eligible, a_enqueued>>

AutoPostStep ==
    \/ \E b \in WorkerRuns : ProcessEligibleResponses(b)
    \/ \E b \in WorkerRuns : ProcessSingleResponse(b)
    \/ \E b \in WorkerRuns : ProcessReturn(b)
    \/ \E b \in WorkerRuns : CheckAndEnqueue(b)
    \/ \E b \in WorkerRuns, outcome \in StatusOutcomes : MarkPosting(b, outcome)
    \/ \E b \in WorkerRuns : MarkFailed(b)
    \/ \E success \in BOOLEAN : PosterPosts(success)
    \/ \E r \in ResponseIds, success \in BOOLEAN : PostResponse(r, success)

(***************************************************************************)
(* The crawl scheduler: CrawlScheduler._execute_crawl for one job, called  *)
(* by the job's trigger and by run_crawl_now on one event loop.            *)
(***************************************************************************)
MaxExecutions == 3

(* the calls of _execute_crawl that can be in progress together *)
JobRuns == 1..2

(* CrawlResult, as far as _execute_crawl reads it: whether it has posts and errors *)
SearchResults == [posts : BOOLEAN, errors : BOOLEAN]

(* CrawlJobStatus of a job that add_crawl_config has just scheduled *)
NewJobStatus == [total_runs |-> 0, successful_runs |-> 0, failed_runs |-> 0,
                 last_status |-> "none"]

JInit ==
    /\ j_pc = [r \in JobRuns |-> "idle"]
    /\ j_enabled = TRUE
    /\ j_callback = FALSE
    /\ j_status = NewJobStatus
    /\ j_started = 0
    /\ j_finished = 0

(* set_result_callback *)
SetResultCallback ==
    /\ UNCHANGED not_job
    /\ ~j_callback
    /\ j_callback' = TRUE
    /\ UNCHANGED <<j_pc, j_enabled, j_status, j_started, j_finished>>

(* update_crawl_config while no execution is in progress: the job is removed and added
   again with the new configuration and a new status *)
UpdateCrawlConfig(enabled) ==
    /\ UNCHANGED not_job
    /\ \A r \in JobRuns : j_pc[r] = "idle"
    /\ enabled # j_enabled
    /\ j_enabled' = enabled
    /\ j_status' = NewJobStatus
    /\ j_finished' = 0
    /\ UNCHANGED <<j_pc, j_callback, j_started>>

(* _execute_crawl up to the await of crawler.search; a disabled job returns at once *)
ExecuteCrawl(r) ==
    /\ UNCHANGED not_job
    /\ j_pc[r] = "idle"
    /\ j_started < MaxExecutions
    /\ IF j_enabled
       THEN /\ j_pc' = [j_pc EXCEPT ![r] = "search"]
            /\ j_started' = j_started + 1
       ELSE UNCHANGED <<j_pc, j_started>>
    /\ UNCHANGED <<j_enabled, j_callback, j_status, j_finished>>

(* the status update of the try block *)
StatusAfter(status, result) ==
    [total_runs |-> status.total_runs + 1,
     successful_runs |-> IF result.errors /\ ~result.posts THEN status.successful_runs
                         ELSE status.successful_runs + 1,
     failed_runs |-> IF result.errors /\ ~result.posts THEN status.failed_runs + 1
                     ELSE status.failed_runs,
     last_status |-> IF ~result.errors THEN "success"
                     ELSE IF result.posts THEN "partial" ELSE "failed"]

(* the status update of the except clause *)
StatusAfterError(status) ==
    [total_runs |-> status.total_runs + 1,
     successful_runs |-> status.successful_runs,
     failed_runs |-> status.failed_runs + 1,
     last_status |-> "error"]

(* crawler.search returns: the status is updated, then the result callback is awaited *)
SearchReturns(r, result) ==
    /\ UNCHANGED not_job
    /\ j_pc[r] = "search"
    /\ j_status' = StatusAfter(j_status, result)
    /\ IF j_callback
       THEN /\ j_pc' = [j_pc EXCEPT ![r] = "callback"]
            /\ UNCHANGED j_finished
       ELSE /\ j_pc' = [j_pc EXCEPT ![r] = "idle"]
            /\ j_finished' = j_finished + 1
    /\ UNCHANGED <<j_enabled, j_callback, j_started>>

(* crawler.initialize or crawler.search raises *)
SearchRaises(r) ==
    /\ UNCHANGED not_job
    /\ j_pc[r] = "search"
    /\ j_status' = StatusAfterError(j_status)
    /\ j_pc' = [j_pc EXCEPT ![r] = "idle"]
    /\ j_finished' = j_finished + 1
    /\ UNCHANGED <<j_enabled, j_callback, j_started>>

(* the result callback returns *)
CallbackReturns(r) ==
    /\ UNCHANGED not_job
    /\ j_pc[r] = "callback"
    /\ j_pc' = [j_pc EXCEPT ![r] = "idle"]
    /\ j_finished' = j_finished + 1
    /\ UNCHANGED <<j_enabled, j_callback, j_status, j_started>>

(* the result callback raises: the except clause runs after the try block's update *)
CallbackRaises(r) ==
    /\ UNCHANGED not_job
    /\ j_pc[r] = "callback"
    /\ j_status' = StatusAfterError(j_status)
    /\ j_pc' = [j_pc EXCEPT ![r] = "idle"]
    /\ j_finished' = j_finished + 1
    /\ UNCHANGED <<j_enabled, j_callback, j_started>>

JobStep ==
    \/ SetResultCallback
    \/ \E enabled \in BOOLEAN : UpdateCrawlConfig(enabled)
    \/ \E r \in JobRuns : ExecuteCrawl(r)
    \/ \E r \in JobRuns, result \in SearchResults : SearchReturns(r, result)
    \/ \E r \in JobRuns : SearchRaises(r)
    \/ \E r \in JobRuns : CallbackReturns(r)
    \/ \E r \in JobRuns : CallbackRaises(r)

(***************************************************************************)
(* The crawlers' rate limiter: RateLimiter.acquire called by concurrent    *)
(* tasks of one event loop. Times are in tenths of a second.               *)
(***************************************************************************)
MaxAcquires == 4

MaxFailures == 1

(* the clock moves by this step, or to the end of a sleep *)
LimiterTickStep == 300

MaxLimiterClock == 1200

Callers == 1..2

MINUTE == 600

(* RateLimitConfig of the limiter: requests_per_day is not set *)
requests_per_minute == 2

requests_per_hour == 3

min_delay_seconds == 1

max_delay_seconds == 600

backoff_multiplier == 2

CallerIdle == [at |-> "idle", wake |-> 0]

RInit ==
    /\ r_now = min_delay_seconds
    /\ r_minute = <<>>
    /\ r_hour = <<>>
    /\ r_last = 0
    /\ r_failures = 0
    /\ r_lock = 0
    /\ r_waiters = <<>>
    /\ r_pc = [c \in Callers |-> CallerIdle]
    /\ r_log = <<>>

(* the entries _calculate_window_wait leaves in the window *)
Cleaned(window, time, window_seconds) ==
    SelectSeq(window, LAMBDA ts : ts >= time - window_seconds)

(* a window that never asks for a wait *)
WindowWaitNone(window, time, window_seconds, max_requests) == 0

(* _calculate_window_wait *)
WindowWait(window, time, window_seconds, max_requests) ==
    LET kept == Cleaned(window, time, window_seconds)
    IN IF Len(kept) >= max_requests THEN (kept[1] + window_seconds) - time + 1 ELSE 0

RECURSIVE Power(_, _)
Power(base, exponent) == IF exponent = 0 THEN 1 ELSE base * Power(base, exponent - 1)

(* _calculate_wait_time: the maximum of the waits that apply, or 0 *)
WaitTime(time) ==
    LET window_waits == {WindowWait(r_minute, time, MINUTE, requests_per_minute),
                         WindowWait(r_hour, time, HOUR * 10, requests_per_hour)}
        delay_waits == IF time - r_last < min_delay_seconds
                       THEN {min_delay_seconds - (time - r_last)} ELSE {}
        backoff_waits == IF r_failures > 0
                         THEN {Min2(min_delay_seconds * Power(backoff_multiplier, r_failures),
                                    max_delay_seconds)}
                         ELSE {}
        wait_times == window_waits \cup delay_waits \cup backoff_waits
    IN CHOOSE w \in wait_times : \A v \in wait_times : v <= w

(* the request is recorded and the lock released: the end of acquire *)
RecordRequest(c) ==
    /\ r_minute' = Append(r_minute, r_now)
    /\ r_hour' = Append(r_hour, r_now)
    /\ r_last' = r_now
    /\ r_lock' = 0
    /\ r_pc' = [r_pc EXCEPT ![c] = CallerIdle]
    /\ r_log' = Append(r_log, r_now)

(* with the lock: _calculate_wait_time, then the sleep is started or the request recorded *)
Enter(c) ==
    LET wait_time == WaitTime(r_now)
    IN IF wait_time > 0
       THEN /\ r_minute' = Cleaned(r_minute, r_now, MINUTE)
            /\ r_hour' = Cleaned(r_hour, r_now, HOUR * 10)
            /\ r_lock' = c
            /\ r_pc' = [r_pc EXCEPT ![c] = [at |-> "sleep", wake |-> r_now + wait_time]]
            /\ UNCHANGED <<r_last, r_log>>
       ELSE /\ r_minute' = Append(Cleaned(r_minute, r_now, MINUTE), r_now)
            /\ r_hour' = Append(Cleaned(r_hour, r_now, HOUR * 10), r_now)
            /\ r_last' = r_now
            /\ r_lock' = 0
            /\ r_pc' = [r_pc EXCEPT ![c] = CallerIdle]
            /\ r_log' = Append(r_log, r_now)

Calls == Len(r_log) + Cardinality({c \in Callers : r_pc[c].at # "idle"})

(* acquire is called: the caller takes the free lock or waits for it *)
Acquire(c) ==
    /\ UNCHANGED not_limiter
    /\ r_pc[c].at = "idle"
    /\ Calls < MaxAcquires
    /\ IF r_lock = 0 /\ r_waiters = <<>>
       THEN Enter(c) /\ UNCHANGED r_waiters
       ELSE /\ r_waiters' = Append(r_waiters, c)
            /\ r_pc' = [r_pc EXCEPT ![c] = [at |-> "lock", wake |-> 0]]
            /\ UNCHANGED <<r_minute, r_hour, r_last, r_lock, r_log>>
    /\ UNCHANGED <<r_now, r_failures>>

(* the released lock goes to the caller that has waited longest *)
AcquireLocked(c) ==
    /\ UNCHANGED not_limiter
    /\ r_lock = 0
    /\ r_waiters # <<>>
    /\ c = Head(r_waiters)
    /\ r_waiters' = Tail(r_waiters)
    /\ Enter(c)
    /\ UNCHANGED <<r_now, r_failures>>

(* asyncio.sleep(wait_time) returns, with the lock still held *)
AcquireWake(c) ==
    /\ UNCHANGED not_limiter
    /\ r_pc[c].at = "sleep"
    /\ r_now >= r_pc[c].wake
    /\ RecordRequest(c)
    /\ UNCHANGED <<r_now, r_failures, r_waiters>>

(* record_failure and record_success *)
RecordFailure ==
    /\ UNCHANGED not_limiter
    /\ r_failures < MaxFailures
    /\ r_failures' = r_failures + 1
    /\ UNCHANGED <<r_now, r_minute, r_hour, r_last, r_lock, r_waiters, r_pc, r_log>>

RecordSuccess ==
    /\ UNCHANGED not_limiter
    /\ r_failures > 0
    /\ r_failures' = 0
    /\ UNCHANGED <<r_now, r_minute, r_hour, r_last, r_lock, r_waiters, r_pc, r_log>>

(* time passes *)
LimiterTick ==
    /\ UNCHANGED not_limiter
    /\ r_now + LimiterTickStep <= MaxLimiterClock
    /\ r_now' = r_now + LimiterTickStep
    /\ UNCHANGED <<r_minute, r_hour, r_last, r_failures, r_lock, r_waiters, r_pc, r_log>>

(* time passes until the sleep of a caller ends *)
SleepElapse(c) ==
    /\ UNCHANGED not_limiter
    /\ r_pc[c].at = "sleep"
    /\ r_now < r_pc[c].wake
    /\ r_now' = r_pc[c].wake
    /\ UNCHANGED <<r_minute, r_hour, r_last, r_failures, r_lock, r_waiters, r_pc, r_log>>

LimiterStep ==
    \/ \E c \in Callers : Acquire(c)
    \/ \E c \in Callers : AcquireLocked(c)
    \/ \E c \in Callers : AcquireWake(c)
    \/ RecordFailure
    \/ RecordSuccess
    \/ LimiterTick
    \/ \E c \in Callers : SleepElapse(c)

(***************************************************************************)
(* The periodic task runner: AutoPostScheduler._scheduler_loop,            *)
(* _check_and_run_tasks, _run_task, trigger_task, enable_task and          *)
(* disable_task on one event loop.                                         *)
(***************************************************************************)
MaxTaskClock == 3

(* interval_seconds of the registered tasks *)
TaskInterval == 2

(* runs of one task counted by run_count, finished or in progress *)
MaxTaskRuns == 2

TaskNames == {"auto_post", "cleanup"}

ScheduledTask(enabled, status, next_run_at) ==
    [enabled |-> enabled, status |-> status, next_run_at |-> next_run_at,
     run_count |-> 0, error_count |-> 0, interval_seconds |-> TaskInterval]

(* register_task: auto_post with run_immediately, cleanup disabled *)
TInit ==
    /\ t_now = 0
    /\ t_tasks = [n \in TaskNames |->
                     IF n = "auto_post" THEN ScheduledTask(TRUE, "pending", 0)
                     ELSE ScheduledTask(FALSE, "pending", TaskInterval)]
    /\ t_created = [n \in TaskNames |-> 0]
    /\ t_running = [n \in TaskNames |-> 0]

TaskClockTick ==
    /\ UNCHANGED not_tasks
    /\ t_now < MaxTaskClock
    /\ t_now' = t_now + 1
    /\ UNCHANGED <<t_tasks, t_created, t_running>>

(* the test of _check_and_run_tasks for one task *)
Fires(task, utcnow) ==
    task.enabled /\ task.status # "running" /\ task.next_run_at <= utcnow

(* one tick of _scheduler_loop: _check_and_run_tasks. The runs created by the tick
   before have begun by then: the loop sleeps one second between ticks *)
CheckAndRunTasks ==
    /\ UNCHANGED not_tasks
    /\ \A n \in TaskNames : t_created[n] = 0
    /\ t_created' = [n \in TaskNames |-> IF Fires(t_tasks[n], t_now) THEN 1 ELSE 0]
    /\ UNCHANGED <<t_now, t_tasks, t_running>>

InProgress(n) == t_tasks[n].run_count + t_created[n] + t_running[n]

(* _run_task up to the await of the callback *)
RunTaskBegins(n) ==
    /\ t_tasks' = [t_tasks EXCEPT ![n].status = "running"]
    /\ t_running' = [t_running EXCEPT ![n] = @ + 1]

(* a run created by the loop takes its first step *)
RunTask(n) ==
    /\ UNCHANGED not_tasks
    /\ t_created[n] > 0
    /\ t_created' = [t_created EXCEPT ![n] = @ - 1]
    /\ RunTaskBegins(n)
    /\ UNCHANGED t_now

(* trigger_task *)
TriggerTask(n) ==
    /\ UNCHANGED not_tasks
    /\ InProgress(n) < MaxTaskRuns
    /\ RunTaskBegins(n)
    /\ UNCHANGED <<t_now, t_created>>

(* bookkeeping in which a failed run leaves next_run_at as it is *)
RunTaskEndsUnscheduled(n, raised) ==
    /\ UNCHANGED not_tasks
    /\ t_running[n] > 0
    /\ t_running' = [t_running EXCEPT ![n] = @ - 1]
    /\ t_tasks' = [t_tasks EXCEPT
                      ![n].run_count = @ + 1,
                      ![n].error_count = IF raised THEN @ + 1 ELSE @,
                      ![n].status = IF raised THEN "failed" ELSE "completed",
                      ![n].next_run_at = IF raised THEN @ ELSE t_now + t_tasks[n].interval_seconds]
    /\ UNCHANGED <<t_now, t_created>>

(* the callback of a run returns or raises: the bookkeeping of _run_task *)
RunTaskEnds(n, raised) ==
    /\ UNCHANGED not_tasks
    /\ t_running[n] > 0
    /\ t_running' = [t_running EXCEPT ![n] = @ - 1]
    /\ t_tasks' = [t_tasks EXCEPT
                      ![n].run_count = @ + 1,
                      ![n].error_count = IF raised THEN @ + 1 ELSE @,
                      ![n].status = IF raised THEN "failed" ELSE "completed",
                      ![n].next_run_at = t_now + t_tasks[n].interval_seconds]
    /\ UNCHANGED <<t_now, t_created>>

EnableTask(n) ==
    /\ UNCHANGED not_tasks
    /\ ~t_tasks[n].enabled
    /\ InProgress(n) < MaxTaskRuns
    /\ t_tasks' = [t_tasks EXCEPT ![n].enabled = TRUE, ![n].status = "pending"]
    /\ UNCHANGED <<t_now, t_created, t_running>>

DisableTask(n) ==
    /\ UNCHANGED not_tasks
    /\ t_tasks[n].enabled
    /\ t_tasks' = [t_tasks EXCEPT ![n].enabled = FALSE, ![n].status = "paused"]
    /\ UNCHANGED <<t_now, t_created, t_running>>

TasksStep ==
    \/ TaskClockTick
    \/ CheckAndRunTasks
    \/ \E n \in TaskNames : RunTask(n)
    \/ \E n \in TaskNames : TriggerTask(n)
    \/ \E n \in TaskNames, raised \in BOOLEAN : RunTaskEnds(n, raised)
    \/ \E n \in TaskNames : EnableTask(n)
    \/ \E n \in TaskNames : DisableTask(n)

(***************************************************************************)
(* PostingQueue.stop with the worker pool: _running is cleared, the        *)
(* workers are awaited for at most timeout seconds and the ones still      *)
(* pending are cancelled.                                                  *)
(***************************************************************************)
SInit == s_phase = "running"

(* stop up to asyncio.wait: _running = False *)
StopCall ==
    /\ UNCHANGED not_stop
    /\ s_phase = "running"
    /\ s_phase' = "stopping"

(* every worker has come back to the test of its loop and has left it *)
StopWorkersDone ==
    /\ UNCHANGED not_stop
    /\ s_phase = "stopping"
    /\ \A w \in Workers : pc[w] = "dequeue"
    /\ s_phase' = "stopped"

(* the timeout passes: the workers still pending are cancelled where they are *)
StopTimeout ==
    /\ UNCHANGED not_stop
    /\ s_phase = "stopping"
    /\ \E w \in Workers : pc[w] # "dequeue"
    /\ s_phase' = "stopped"

(* what a worker does of the iteration it is in, once the item is taken *)
WorkerFinishStep ==
    \E w \in Workers :
       \/ DequeueMark(w)
       \/ \E r \in PostResults : WorkerPost(w, r)
       \/ WorkerComplete(w)
       \/ WorkerCallbackReturn(w)
       \/ WorkerPutResume(w)

(***************************************************************************)
(* CrisisDetector: _normalize_text and detect.  A text is a sequence of    *)
(* one-character strings; the texts are built word by word from TextWords. *)
(***************************************************************************)
MaxWords == 4

TextWords ==
    { <<"e">>, <<"n">>, <<"d">>, <<"3">>, <<"N">>, <<"&">>,
      <<"e", "n", "d">>, <<"a", "l", "l">>, <<"i", "t">> }

(* str.isalpha of one character, after lower() *)
Alpha ==
    {"a", "b", "c", "d", "e", "f", "g", "h", "i", "j", "k", "l", "m",
     "n", "o", "p", "q", "r", "s", "t", "u", "v", "w", "x", "y", "z"}

(* str.lower on the characters of the texts *)
CaseFold(c) ==
    CASE c = "N" -> "n"
      [] c = "E" -> "e"
      [] OTHER -> c

leetspeak_map ==
    [c \in {"0", "1", "3", "4", "5", "7", "@", "$"} |->
        CASE c = "0" -> "o" [] c = "1" -> "i" [] c = "3" -> "e" [] c = "4" -> "a"
          [] c = "5" -> "s" [] c = "7" -> "t" [] c = "@" -> "a" [] c = "$" -> "s"]

Replaced(c) == IF c \in DOMAIN leetspeak_map THEN leetspeak_map[c] ELSE c

(* str.split(): the maximal runs of characters other than whitespace *)
RECURSIVE SplitWords(_, _, _)
SplitWords(s, word, words) ==
    IF s = <<>>
    THEN IF word = <<>> THEN words ELSE Append(words, word)
    ELSE IF Head(s) = " "
         THEN SplitWords(Tail(s), <<>>, IF word = <<>> THEN words ELSE Append(words, word))
         ELSE SplitWords(Tail(s), Append(word, Head(s)), words)

(* the loop over words: a one-letter word is added to the last cleaned word *)
(* when that word has length one                                            *)
RECURSIVE CleanedWords(_, _)
CleanedWords(words, cleaned_words) ==
    IF words = <<>>
    THEN cleaned_words
    ELSE LET word == Head(words)
             last == Len(cleaned_words)
         IN  IF /\ Len(word) = 1
                /\ word[1] \in Alpha
                /\ cleaned_words # <<>>
                /\ Len(cleaned_words[last]) = 1
             THEN CleanedWords(Tail(words), [cleaned_words EXCEPT ![last] = @ \o word])
             ELSE CleanedWords(Tail(words), Append(cleaned_words, word))

(* " ".join(words) *)
RECURSIVE JoinWords(_)
JoinWords(words) ==
    IF words = <<>> THEN <<>>
    ELSE IF Len(words) = 1 THEN Head(words)
    ELSE Head(words) \o <<" ">> \o JoinWords(Tail(words))

NormalizeText(text) ==
    LET normalized == [k \in 1..Len(text) |-> Replaced(CaseFold(text[k]))]
    IN  JoinWords(CleanedWords(SplitWords(normalized, <<>>, <<>>), <<>>))

(* \b at position i: between s[i-1] and s[i], one is a word character and the other not *)
WordCharAt(s, k) == k \in 1..Len(s) /\ s[k] \in Alpha

Boundary(s, i) == WordCharAt(s, i - 1) # WordCharAt(s, i)

HasAt(s, i, lit) ==
    /\ i + Len(lit) - 1 <= Len(s)
    /\ \A k \in 1..Len(lit) : s[i + k - 1] = lit[k]

\* the whitespace of the pattern takes s[i..j-1]
Spaces(s, i, j) == \A k \in i..(j - 1) : s[k] = " "

\* pattern.search of the suicidal ideation phrase: end, whitespace, an optional
\* it and whitespace, all, between two word boundaries
EndItAll(s) ==
    \E i \in 1..Len(s) :
       /\ Boundary(s, i)
       /\ HasAt(s, i, <<"e", "n", "d">>)
       /\ \E j \in (i + 3)..Len(s) :
             /\ Spaces(s, i + 3, j)
             /\ \/ HasAt(s, j, <<"a", "l", "l">>) /\ Boundary(s, j + 3)
                \/ /\ HasAt(s, j, <<"i", "t">>)
                   /\ \E k \in (j + 2)..Len(s) :
                         /\ Spaces(s, j + 2, k)
                         /\ HasAt(s, k, <<"a", "l", "l">>)
                         /\ Boundary(s, k + 3)

NInit ==
    /\ n_text = <<>>
    /\ n_normalized = <<>>
    /\ n_is_crisis = FALSE

(* detect(text) for the last text with one more word *)
Detect(w) ==
    /\ UNCHANGED not_crisis
    /\ Len(SplitWords(n_text, <<>>, <<>>)) < MaxWords
    /\ LET text == IF n_text = <<>> THEN w ELSE n_text \o <<" ">> \o w
       IN  /\ n_text' = text
           /\ n_normalized' = NormalizeText(text)
           /\ n_is_crisis' = EndItAll(NormalizeText(text))

Init == QInit(MaxStale) /\ PInit /\ LInit /\ DInit /\ CInit /\ AInit /\ JInit /\ RInit /\ TInit /\ SInit /\ NInit

(* the queue has not been used *)
InitIdle == QInit(0) /\ PInit /\ LInit /\ DInit /\ CInit /\ AInit /\ JInit /\ RInit /\ TInit /\ SInit /\ NInit

(* the queue driven by its worker pool, with enqueue and cancel called by the host *)
QueueNext == Tick \/ WorkerStep \/ HostStep

Next == QueueNext

Spec == Init /\ [][Next]_vars

(* the queue driven by the host alone: enqueue, dequeue, complete, cancel *)
ApiNext == Tick \/ ApiStep

(* runs of the engagement pipeline, one after the other *)
PipelineNext == PipelineStep

SpecPipeline == InitIdle /\ [][PipelineNext]_vars

(* the rate-limit manager and the eligibility checker called by the host *)
LimitsNext == LimitsStep

SpecLimits == InitIdle /\ [][LimitsNext]_vars

SpecApi == Init /\ [][ApiNext]_vars

(* one dequeue call at a time, with enqueue and cancel called by the host *)
OrderNext == Elapse \/ DequeueStep \/ OrderStep

SpecOrder == Init /\ [][OrderNext]_vars

(* calls of the crawl processor on one event loop *)
CrawlNext == CrawlStep

SpecCrawl == InitIdle /\ [][CrawlNext]_vars

(* the auto-post worker, the poster and the posting route on one event loop *)
AutoPostNext == AutoPostStep

SpecAutoPost == InitIdle /\ [][AutoPostNext]_vars

(* executions of one crawl job on one event loop *)
JobNext == JobStep

SpecJob == InitIdle /\ [][JobNext]_vars

(* concurrent callers of one rate limiter *)
LimiterNext == LimiterStep

SpecLimiter == InitIdle /\ [][LimiterNext]_vars

(* the periodic task runner with its host *)
TasksNext == TasksStep

SpecTasks == InitIdle /\ [][TasksNext]_vars

(* the worker pool until stop is called, then the iterations in progress and stop *)
StopNext ==
    \/ s_phase = "running" /\ QueueNext
    \/ s_phase = "stopping" /\ (Tick \/ WorkerFinishStep)
    \/ StopCall
    \/ StopWorkersDone
    \/ StopTimeout

SpecStop == Init /\ [][StopNext]_vars

CrisisNext == \E w \in TextWords : Detect(w)

SpecCrisis == InitIdle /\ [][CrisisNext]_vars

(***************************************************************************)
(* Properties of the posting queue                                         *)
(***************************************************************************)
(* a worker holds witem[w] from the return of dequeue to the return of complete *)
Holds(w) == pc[w] \in {"post", "complete", "on_success", "on_failure", "put_wait"}

(* C1: no item is held by two workers at the same time: between a dequeue that
   returns an item and the end of the complete for that attempt, no other dequeue
   returns the same item *)
C1_NoDoubleHold ==
    \A w1 \in Workers, w2 \in Workers :
        (w1 # w2 /\ Holds(w1) /\ Holds(w2)) => witem[w1] # witem[w2]

(* two workers hold items at once, one of them on a retry of its item *)
C1_Witness ==
    \E w1 \in Workers, w2 \in Workers :
        /\ w1 # w2 /\ pc[w1] = "post" /\ Holds(w2)
        /\ item[witem[w1]].retry_count >= 1

(* C2: every item reaches a terminal status (completed, failed, cancelled) exactly
   once; the part checked here: no item enters a terminal status a second time *)
C2_TerminalOnce == \A i \in ItemIds : term_count[i] <= 1

(***************************************************************************)
(* Properties of the analysis pipeline                                     *)
(***************************************************************************)
(* C3: a run on a text that contains a crisis pattern ends with
   risk.risk_level = blocked, responses = null, cta = null and
   cts.can_auto_post = false, whatever the outcome of the LLM calls of the run *)
C3_CrisisBlocked ==
    (p_pc = "END" /\ p_text.crisis) =>
        /\ p_risk.set /\ p_risk.risk_level = "blocked"
        /\ ~p_responses.set
        /\ ~p_cta.set
        /\ p_cts.set /\ ~p_cts.can_auto_post

(* C4: the crisis detector is the first gate of a run: no LLM call is made for
   the text before the detector has been evaluated on it *)
C4_DetectorFirst == p_first_gate # "llm"

(***************************************************************************)
(* Properties of the rate limits and of the eligibility check              *)
(***************************************************************************)
(* C5: when the organization's auto_post_enabled is false, check returns
   eligible = false and check_limits returns allowed = false, whatever the
   response, the platform, the target, the other limits and the history are.
   For check the flag is false when it is false in the limits passed in or in
   the limits the manager holds *)
C5_DisabledRefuses ==
    /\ (l_call.op = "check" /\ ~l_call.enabled) => ~l_call.eligible
    /\ (l_call.op = "check_limits" /\ ~GetOrgLimits(l_limits).auto_post_enabled)
          => ~l_call.allowed

(* check_limits has refused for a disabled organization that no other limit stops *)
C5_Witness ==
    /\ l_call.op = "check_limits"
    /\ ~l_call.allowed
    /\ ~GetOrgLimits(l_limits).auto_post_enabled
    /\ Len(l_log) >= 1
    /\ CheckLimitsUngated(GetOrgLimits(l_limits), l_history, l_now, l_call.platform,
                          l_call.target) = "ok"

(* the record_post calls of the last width seconds, counted on the full log *)
Recorded(width) == Cardinality({k \in 1..Len(l_log) : l_now - l_log[k] < width})

(* C6: check_limits returns allowed = false once the posts recorded inside the
   hour number max_hourly_auto_posts, not before when the other limits permit, and
   allowed = true again only when a recorded timestamp has aged out of the hour;
   nor does it allow a post when the posts of the day number max_daily_auto_posts *)
C6_CapExactly ==
    l_call.op = "check_limits" =>
        LET limits == GetOrgLimits(l_limits)
            lifted == [limits EXCEPT !.max_hourly_auto_posts = Len(l_log) + 1]
            others_permit == CheckLimits(lifted, l_history, l_now, l_call.platform,
                                         l_call.target) = "ok"
        IN /\ l_call.allowed <=>
                  (Recorded(HOUR) < limits.max_hourly_auto_posts /\ others_permit)
           /\ l_call.allowed => Recorded(DAY) < limits.max_daily_auto_posts

(* the hourly cap was reached, and check_limits allows again at the instant the
   oldest post is one hour old *)
C6_Witness ==
    /\ l_call.op = "check_limits"
    /\ l_call.allowed
    /\ Len(l_log) >= GetOrgLimits(l_limits).max_hourly_auto_posts
    /\ \E k \in 1..Len(l_log) : l_now - l_log[k] = HOUR

(***************************************************************************)
(* Further properties of the posting queue                                 *)
(***************************************************************************)
(* C7: an item whose every attempt failed with retryable=true, and whose max_retries
   is R, has had exactly R + 1 attempts when its status is failed *)
C7_AttemptsBeforeFailed ==
    \A i \in ItemIds :
        (item[i].status = FAILED /\ all_retryable[i]) => attempts[i] = item[i].max_retries + 1

(* the delay the retry policy asks for after the failure that brought retry_count
   to k: min(base * 2^(k-1), max_delay), and no less than the wait_seconds of a
   rate-limit failure *)
PolicyDelay(k, r) ==
    LET backoff == IF base_retry_delay * (2 ^ (k - 1)) < max_retry_delay
                      THEN base_retry_delay * (2 ^ (k - 1)) ELSE max_retry_delay
    IN IF r.error_code = "RATELIMIT" /\ r.wait_seconds > backoff THEN r.wait_seconds ELSE backoff

(* C8: after a retryable failure that brings retry_count to k, the item is not
   handed to a worker again before min(base * 2^(k-1), max_delay) seconds have
   passed, nor before wait_seconds when the failure was a rate-limit signal *)
C8_RetryNotEarly ==
    \A w \in Workers :
        (pc[w] \in {"post", "complete"} /\ item[witem[w]].retry_count >= 1) =>
            now >= last_failure[witem[w]].at
                     + PolicyDelay(item[witem[w]].retry_count, last_failure[witem[w]].result)

(* a retry after a rate-limit failure is handed out at the first instant allowed,
   where the wait hint exceeds the backoff *)
C8_Witness ==
    \E w \in Workers :
        /\ pc[w] = "post"
        /\ item[witem[w]].retry_count = 1
        /\ last_failure[witem[w]].result.error_code = "RATELIMIT"
        /\ last_failure[witem[w]].result.wait_seconds > base_retry_delay
        /\ now = last_failure[witem[w]].at + last_failure[witem[w]].result.wait_seconds

(* C9: cancel succeeds, removing the item from the items map, only when the item's
   status is queued or retry_pending *)
C9_CancelOnlyPending ==
    [][\A i \in ItemIds :
          (i \in items_map /\ i \notin items_map') =>
              item[i].status \in {QUEUED, RETRY_PENDING}]_vars

(* C10: once an item's status is completed, failed or cancelled, no step changes
   its status or its retry_count, or invokes a success or failure callback for it *)
C10_TerminalFrozen ==
    [][\A i \in ItemIds :
          Terminal(item[i].status) =>
              /\ item'[i].status = item[i].status
              /\ item'[i].retry_count = item[i].retry_count
              /\ callbacks'[i] = callbacks[i]]_vars

(* C11: enqueue never suspends: it either refuses because the queue is at
   max_queue_size or returns the new item without waiting, so no enqueue is ever
   parked in _queue.put *)
C11_EnqueueNoSuspend == host_put.kind # "enqueue"

(***************************************************************************)
(* Properties of dequeue                                                   *)
(***************************************************************************)
(* an entry of an item that was enqueued without scheduled_for and is still queued *)
Unscheduled(f) ==
    /\ f.id \in items_map
    /\ f.id \notin processing
    /\ item[f.id].status = QUEUED
    /\ item[f.id].scheduled_for = None

(* C12: items enqueued without scheduled_for are handed out in descending priority
   order whatever the order of their enqueues, and in order of their timestamps
   within one priority: when dequeue takes such an item, no other such item in the
   queue has a higher priority, or the same priority and an earlier timestamp *)
C12_PriorityOrder ==
    [][(d_pc = "get" /\ d_ret' # d_ret /\ d_ret'.kind \in {"item", "taken"}
           /\ item[d_ret'.id].scheduled_for = None) =>
          \A f \in BagToSet(queue) :
              (Unscheduled(f) /\ f.id # d_ret'.id) =>
                  \/ f.priority < d_ret'.priority
                  \/ f.priority = d_ret'.priority /\ d_ret'.ts <= f.ts]_vars

(* dequeue has returned an item that was enqueued later than an item of lower
   priority that is still queued *)
C12_Witness ==
    /\ d_ret.kind = "item"
    /\ item[d_ret.id].scheduled_for = None
    /\ \E f \in BagToSet(queue) :
          Unscheduled(f) /\ f.priority < d_ret.priority /\ f.ts < d_ret.ts

(* C13: dequeue re-queues and skips an item whose scheduled_for is in the future and
   goes on to the next item: within one call it does not take from the queue, and
   re-queue, an item it has already skipped *)
C13_SkipsScheduledLater == [][(d_pc = "get" /\ d_pc' = "sleep") => d_seen' # d_seen]_vars

(***************************************************************************)
(* Properties of the failure handling                                      *)
(***************************************************************************)
(* the step in which worker w's complete call handles a failed attempt on an item
   of the items map, one of whose attempts did not fail with retryable=true *)
HandlesPermanentFailure(w) ==
    /\ pc[w] \in {"post", "complete"}
    /\ pc'[w] \notin {"post", "complete"}
    /\ witem[w] \in items_map
    /\ item'[witem[w]].retry_count = item[witem[w]].retry_count + 1
    /\ ~all_retryable'[witem[w]]

(* C14: when an attempt fails with retryable=false, the item's status is failed
   after that attempt, it is not re-queued and the failure callback is invoked once;
   no further attempt and no further callback follows for the item *)
C14_NonRetryableFails ==
    [][/\ \A w \in Workers :
             HandlesPermanentFailure(w) =>
                 /\ item'[witem[w]].status = FAILED
                 /\ callbacks'[witem[w]] = callbacks[witem[w]] + 1
                 /\ \A e \in BagToSet(queue') : e.id # witem[w]
       /\ \A i \in ItemIds :
             ~all_retryable[i] =>
                 /\ attempts'[i] = attempts[i]
                 /\ callbacks[i] >= 1 => callbacks'[i] = callbacks[i]]_vars

(* an item is failed after one attempt, which was not retryable, and one callback *)
C14_Witness ==
    \E i \in ItemIds :
        /\ item[i].status = FAILED
        /\ ~all_retryable[i]
        /\ attempts[i] = 1
        /\ item[i].retry_count = 1
        /\ callbacks[i] = 1

(* the step in which worker w's complete call takes effect on an item of the items map *)
Handles(w) ==
    /\ pc[w] \in {"post", "complete"}
    /\ pc'[w] \notin {"post", "complete"}
    /\ witem[w] \in items_map

(* the failed result that step has handled, as the state after it shows it *)
HandledResult(w) ==
    IF pc'[w] = "on_failure" THEN wresult'[w]
    ELSE IF item'[witem[w]].status = RETRY_PENDING THEN last_failure'[witem[w]].result
    ELSE NoResult

(* C15: an exception of the post callback becomes a non-success result with
   error_code WORKER_ERROR and retryable=true that goes through complete and the
   retry policy: the item is re-queued for a retry, or failed with its callback when
   its retries are used up; the item stays in the items map and the worker goes on
   with its loop *)
C15_CallbackExceptionIsolated ==
    [][\A w \in Workers :
          (Handles(w) /\ HandledResult(w).error_code = "WORKER_ERROR") =>
              LET i == witem[w]
                  k == item[i].retry_count + 1
              IN /\ HandledResult(w).retryable /\ ~HandledResult(w).success
                 /\ i \in items_map'
                 /\ item'[i].retry_count = k
                 /\ IF k < item[i].max_retries
                       THEN /\ item'[i].status = RETRY_PENDING
                            /\ item'[i].scheduled_for = now + PolicyDelay(k, ResultWorkerError)
                            /\ \/ pc'[w] = "put_wait"
                               \/ /\ pc'[w] = "dequeue"
                                  /\ BagIn(Entry(i, item[i].priority, item'[i].scheduled_for),
                                           queue')
                       ELSE /\ item'[i].status = FAILED
                            /\ callbacks'[i] = callbacks[i] + 1
                            /\ pc'[w] = "on_failure"]_vars

(* a worker whose callback raised on one item is attempting another item, while the
   first item waits for its retry *)
C15_Witness ==
    \E w \in Workers, i \in ItemIds :
        /\ pc[w] = "post"
        /\ witem[w] # i
        /\ item[i].status = RETRY_PENDING
        /\ last_failure[i].result.error_code = "WORKER_ERROR"

(***************************************************************************)
(* Properties of the crawl processor                                       *)
(***************************************************************************)
(* the post row has its signal, risk, response and queue rows *)
RowSetComplete(row) ==
    \A k \in 2..Len(Tables) : \E child \in c_store[Tables[k]] : child.post_id = row.id

(* C16: the row set of a post is persisted atomically: once every call of the
   processor has returned, each post row in the store has its signal, risk,
   response and queue rows, also when the pipeline reported an error or an insert
   raised part-way *)
C16_RowSetAtomic ==
    (\A r \in CrawlRuns : c_pc[r] = "idle") =>
        \A row \in c_store["posts"] : RowSetComplete(row)

(* C17: posts are deduplicated on external_url: under any interleaving of
   processor runs the store never holds two post rows with one external_url *)
C17_UrlUnique ==
    \A row1, row2 \in c_store["posts"] :
        row1.external_url = row2.external_url => row1.id = row2.id

(* the score of the CTS formula 0.4*sc + 0.3*(1 - rs) + 0.3*(1 - cl/3), in
   ten-thousandths, for sc and rs in thousandths *)
CtsFormula(sc, rs, cl) == 4 * sc + 3 * (1000 - rs) + 1000 * (3 - cl)

(* a run whose cts_decision node completed *)
CtsDecided == p_pc = "END" /\ p_cts.set /\ p_cta.set /\ ~p_error /\ ~p_blocked

(* C18: the cts_score the pipeline reports is the formula's value rounded to two
   decimals, and can_auto_post is true exactly when that reported score is at
   least 0.7, the risk level is low and the CTA level is at most 1 *)
C18_CtsScoreAndAutoPost ==
    CtsDecided =>
        /\ p_cts.cts_score \in
               RoundTo(CtsFormula(p_signal.confidence, p_risk.risk_score, p_cta.cta_level), 100)
        /\ p_cts.can_auto_post <=>
               (p_cts.cts_score >= 7000 /\ p_risk.risk_level = "low" /\ p_cta.cta_level <= 1)

(* a run that ended because a node failed *)
EndedInError == p_pc = "END" /\ p_error

(* the blocks of the state are those of the nodes up to the failing one *)
PartialResultsKept ==
    /\ p_risk.set => p_signal.set
    /\ p_responses.set => p_risk.set
    /\ p_cta.set => p_responses.set

(* C19: a run in which a node failed ends with the error set, the results of the
   nodes completed before it kept, and the CTS block populated with
   can_auto_post false *)
C19_ErrorPopulatesCts ==
    EndedInError => (PartialResultsKept /\ p_cts.set /\ ~p_cts.can_auto_post)

(* the nine checks of CheckLimits in the documented order, each with whether it
   fails for the organization's limits and history at utcnow *)
LimitChecks(limits, history, utcnow, platform, target) ==
    LET pl == IF platform \in DOMAIN limits.platform_limits
              THEN {limits.platform_limits[platform]} ELSE {}
        hour == {k \in Indices(history) : history[k].ts > utcnow - HOUR}
        day == {k \in Indices(history) : history[k].ts > utcnow - DAY}
        on == {k \in Indices(history) : history[k].platform = platform}
        sub == {k \in on : Lower(history[k].target) = Lower(target)}
        Check(reason, fails) == [reason |-> reason, fails |-> fails]
    IN  << Check("disabled", ~limits.auto_post_enabled),
           Check("platform_disabled", \E p \in pl : ~p.enabled),
           Check("hourly", Cardinality(hour) >= limits.max_hourly_auto_posts),
           Check("daily", Cardinality(day) >= limits.max_daily_auto_posts),
           Check("platform_hourly", \E p \in pl : Cardinality(hour \cap on) >= p.posts_per_hour),
           Check("platform_daily", \E p \in pl : Cardinality(day \cap on) >= p.posts_per_day),
           Check("min_gap",
                 \E p \in pl : \E k \in on : utcnow - history[k].ts < p.min_gap_seconds),
           Check("subreddit_gap",
                 /\ platform = "reddit"
                 /\ target # ""
                 /\ \E p \in pl : \E k \in sub :
                        utcnow - history[k].ts < p.subreddit_gap_seconds),
           Check("blacklist",
                 /\ target # ""
                 /\ Lower(target) \in {Lower(b) : b \in limits.blacklisted_subreddits}) >>

(* the reason of the first failing check, "ok" when none fails *)
FirstFailing(checks) ==
    LET failing == {k \in 1..Len(checks) : checks[k].fails}
    IN  IF failing = {} THEN "ok"
        ELSE checks[CHOOSE k \in failing : \A j \in failing : k <= j].reason

(* the checks of the check_limits call that has just returned *)
ChecksOfCall ==
    LimitChecks(GetOrgLimits(l_limits), l_history, l_now, l_call.platform, l_call.target)

(* C20: check_limits evaluates its nine checks in the fixed order: it refuses
   with the reason of the first failing check of that order, and allows only if
   no check fails *)
C20_FirstFailingCheckWins ==
    l_call.op = "check_limits" =>
        /\ l_call.reason = FirstFailing(ChecksOfCall)
        /\ l_call.allowed <=> (\A k \in 1..Len(ChecksOfCall) : ~ChecksOfCall[k].fails)

(* a call refused for the org hourly cap while a later check, the minimum gap on
   the platform, fails as well *)
C20_Witness ==
    /\ l_call.op = "check_limits"
    /\ ~l_call.allowed
    /\ l_call.reason = "hourly"
    /\ ChecksOfCall[7].fails

(***************************************************************************)
(* Properties of AutoPostEligibility.check and get_time_until_allowed      *)
(***************************************************************************)
(* the six accumulated checks in the documented order *)
CheckOrder ==
    <<"pipeline_can_auto_post", "cts_score", "risk_level", "cta_level", "rate_limits",
      "subreddit_blacklist">>

(* the name a check is listed under in checks_passed *)
PassedName(check) ==
    IF check = "subreddit_blacklist" THEN "subreddit_not_blacklisted" ELSE check

(* whether the check fails for the call that is returning *)
CheckFails(check) ==
    LET response == l_call.response
        org_limits == l_call.org_limits
    IN  CASE check = "pipeline_can_auto_post" -> ~response.can_auto_post
          [] check = "cts_score" -> ~(response.cts_score >= org_limits.min_cts_score)
          [] check = "risk_level" -> response.risk_level \notin org_limits.allowed_risk_levels
          [] check = "cta_level" -> ~(response.cta_level <= org_limits.max_cta_level)
          [] check = "rate_limits" ->
                 FirstFailing(LimitChecks(GetOrgLimits(l_limits), l_history, l_now,
                                          response.platform, response.subreddit)) # "ok"
          [] check = "subreddit_blacklist" ->
                 /\ response.subreddit # ""
                 /\ Lower(response.subreddit)
                       \in {Lower(b) : b \in org_limits.blacklisted_subreddits}

(* the call stopped at one of the two hard gates *)
StoppedAtGate ==
    \/ ~l_call.org_limits.auto_post_enabled
    \/ l_call.response.status \notin {"pending", "approved"}

(* C23: check returns early only on the two hard gates; otherwise it evaluates
   the six further checks in order, lists each one in checks_passed or in
   checks_failed, and is eligible exactly when checks_failed is empty *)
C23_AccumulatesInOrder ==
    l_call.op = "check" =>
        LET result == l_call.result
            Passes(check) == ~CheckFails(check)
            passing == SelectSeq(CheckOrder, Passes)
        IN  /\ result.eligible <=> result.checks_failed = <<>>
            /\ IF ~l_call.org_limits.auto_post_enabled
               THEN result.checks_failed = <<"org_auto_post_enabled">>
               ELSE IF l_call.response.status \notin {"pending", "approved"}
               THEN result.checks_failed = <<"response_status">>
               ELSE /\ result.checks_failed = SelectSeq(CheckOrder, CheckFails)
                    /\ result.checks_passed =
                           <<"org_auto_post_enabled", "response_status">>
                               \o [k \in 1..Len(passing) |-> PassedName(passing[k])]

(* a call past the gates in which several checks fail, the rate-limit check
   among them, and others pass *)
C23_Witness ==
    /\ l_call.op = "check"
    /\ ~StoppedAtGate
    /\ Len(l_call.result.checks_failed) >= 3
    /\ \E k \in 1..Len(l_call.result.checks_failed) :
           l_call.result.checks_failed[k] = "rate_limits"
    /\ Len(l_call.result.checks_passed) >= 3

(* the names in checks_failed of the call that is returning *)
FailedNames ==
    {l_call.result.checks_failed[k] : k \in 1..Len(l_call.result.checks_failed)}

(* C24: requires_review is true exactly when checks_failed holds cts_score,
   cta_level or pipeline_can_auto_post; a result whose only failing check is the
   rate-limit check does not require review and carries retry_after_seconds *)
C24_ReviewOnlyForSemanticChecks ==
    l_call.op = "check" =>
        /\ l_call.result.requires_review <=>
               (\E check \in {"cts_score", "cta_level", "pipeline_can_auto_post"} :
                    check \in FailedNames)
        /\ FailedNames = {"rate_limits"} =>
               (~l_call.result.requires_review /\ l_call.result.retry_after.set)

(* a result whose only failing check is the rate-limit check *)
C24_Witness ==
    /\ l_call.op = "check"
    /\ FailedNames = {"rate_limits"}
    /\ l_call.result.retry_after.set

(* the result check gives for every response and passed limits is the same in the
   two states of a step *)
SameResults ==
    \A response \in Responses, org_limits \in PassedProfiles :
        EligibilityResult(response, org_limits, l_limits', l_history', l_now')
            = EligibilityResult(response, org_limits, l_limits, l_history, l_now)

(* C25 as stated: check is a function of its arguments and the manager's state
   (stored limits and request log) alone: calls with equal arguments against
   equal manager state return equal results *)
C25_PureOfManagerState ==
    [][(l_limits' = l_limits /\ l_history' = l_history) => SameResults]_vars

(* C25 amended: check changes neither the request log nor the stored limits, and
   its result is a function of its arguments, the manager's state and the clock:
   the same call made again at once, at the same clock reading, returns the
   result that was returned *)
C25_PureGivenClock ==
    [][l_call'.op = "check" =>
          /\ UNCHANGED <<l_limits, l_history, l_log>>
          /\ l_call'.result = EligibilityResult(l_call'.response, l_call'.org_limits,
                                                l_limits', l_history', l_now')]_vars

(* a check whose result depends on the request log and the clock: the rate-limit
   check fails with a positive time to wait *)
C25_Witness ==
    /\ l_call.op = "check"
    /\ l_history # <<>>
    /\ l_call.result.retry_after.set
    /\ l_call.result.retry_after.seconds > 0

(* check_limits for the arguments of the call that is returning, at the clock
   reading utcnow *)
ReasonAt(utcnow) ==
    CheckLimits(GetOrgLimits(l_limits), l_history, utcnow, l_call.platform, l_call.target)

(* the timestamps of the request log within the last hour *)
HourlyTimestamps == {l_history[k].ts : k \in {j \in Indices(l_history) : l_history[j].ts > l_now - HOUR}}

(* C26: get_time_until_allowed returns 0 only if posting is allowed already; when
   the org hourly cap is reached it returns (oldest timestamp in the window +
   3600) - now; and whenever a cap or a gap makes check_limits refuse, check_limits
   allows the post once the returned time has passed with no further record_post *)
C26_WaitSuffices ==
    l_call.op = "get_time_until_allowed" =>
        /\ l_call.seconds = 0 => ReasonAt(l_now) = "ok"
        /\ ReasonAt(l_now) = "hourly" =>
               \E oldest \in HourlyTimestamps :
                   /\ \A ts \in HourlyTimestamps : oldest <= ts
                   /\ l_call.seconds = oldest + HOUR - l_now
        /\ ReasonAt(l_now) \in {"hourly", "daily", "platform_hourly", "platform_daily",
                               "min_gap", "subreddit_gap"}
               => ReasonAt(l_now + l_call.seconds) = "ok"

Acknowledged == {a_acked[k] : k \in DOMAIN a_acked}

(* the place of the first acknowledgement of r *)
AckPosition(r) == CHOOSE k \in DOMAIN a_acked : a_acked[k] = r /\ \A j \in 1..(k - 1) : a_acked[j] # r

EntriesAcknowledged == \A k \in DOMAIN a_history : a_history[k].response \in Acknowledged

EntriesInAckOrder ==
    \A j, k \in DOMAIN a_history :
        (/\ j < k
         /\ a_history[j].platform = a_history[k].platform
         /\ a_history[j].target = a_history[k].target
         /\ a_history[j].response \in Acknowledged
         /\ a_history[k].response \in Acknowledged)
        => AckPosition(a_history[j].response) <= AckPosition(a_history[k].response)

(* C21: the rate-limit manager's history holds an entry only for a post the poster
   acknowledged as successful, and the entries of one platform and target are in the
   order of those acknowledgements *)
C21_RecordsAcknowledgedPosts == EntriesAcknowledged /\ EntriesInAckOrder

(* a response is between its enqueue and the return of _process_single_response *)
InHandler(r) ==
    \E b \in WorkerRuns : a_batch[b].cur.id = r /\ a_batch[b].pc \in {"posting", "failed"}

RecordedResponses == {a_history[k].response : k \in DOMAIN a_history}

EnqueuedOnlyIfEligible == a_enqueued \subseteq a_eligible

EnqueuedIsPostingAndRecorded ==
    \A r \in a_enqueued :
        ~InHandler(r) => a_status[r] = "posting" /\ r \in RecordedResponses

(* C22: the worker enqueues a response only if the eligibility check returned eligible
   for it, and every response it has enqueued has, once its handler has returned, the
   status posting and an entry in the rate-limit manager's history *)
C22_EnqueueImpliesPostingAndRecorded == EnqueuedOnlyIfEligible /\ EnqueuedIsPostingAndRecorded

(* C27: when no execution of the job is in progress, total_runs is the number of
   executions of the enabled job and each of them has raised exactly one of
   successful_runs and failed_runs, also when the crawler or the callback raised *)
C27_CountersPerRun ==
    (\A r \in JobRuns : j_pc[r] = "idle")
    => /\ j_status.total_runs = j_finished
       /\ j_status.successful_runs + j_status.failed_runs = j_finished

(* the acquire calls that returned in the span of the given length that starts with the
   k-th return *)
ReturnsInSpan(k, span) ==
    Cardinality({i \in DOMAIN r_log : r_log[k] <= r_log[i] /\ r_log[i] <= r_log[k] + span})

(* C28: under any interleaving of concurrent acquire calls, no span of 60 seconds holds
   more than requests_per_minute returns of acquire and no span of an hour more than
   requests_per_hour *)
C28_WindowLimitsHold ==
    \A k \in DOMAIN r_log :
        /\ ReturnsInSpan(k, MINUTE) <= requests_per_minute
        /\ ReturnsInSpan(k, HOUR * 10) <= requests_per_hour

(* the minute window is full, one caller sleeps for it with the lock and another waits
   for the lock *)
C28_Witness ==
    /\ Len(r_log) >= requests_per_minute
    /\ Len(Cleaned(r_minute, r_now, MINUTE)) >= requests_per_minute
    /\ \E c, d \in Callers : r_pc[c].at = "sleep" /\ r_pc[d].at = "lock"

(* C29: acquire does not hold the mutex while it sleeps, so another caller can enter the
   critical section during the wait *)
C29_LockFreeWhileSleeping == \A c \in Callers : r_pc[c].at = "sleep" => r_lock # c

(* a step in which the loop creates a run of task n *)
LoopStarts(n) == t_created'[n] > t_created[n]

(* a step in which a run of task n finishes *)
RunFinishes(n) == t_running'[n] < t_running[n]

(* the loop starts no disabled task, and its tick ends without a callback having
   finished *)
TickSparesDisabled ==
    /\ \A n \in TaskNames : LoopStarts(n) => t_tasks[n].enabled
    /\ CheckAndRunTasks => t_running' = t_running /\ t_tasks' = t_tasks

(* a finished run, successful or not, is counted and the next run is one interval
   after the time it finished *)
FinishIsBooked ==
    \A n \in TaskNames :
        RunFinishes(n) => /\ t_tasks'[n].run_count = t_tasks[n].run_count + 1
                          /\ t_tasks'[n].next_run_at = t_now + t_tasks[n].interval_seconds

(* C30 as stated: a disabled task is never started by the loop; an enabled task whose
   next_run_at <= now is started on the next tick, which does not wait for the
   callback; a finished run raises run_count and moves next_run_at one interval ahead *)
C30_DueTasksStart ==
    [][/\ TickSparesDisabled
       /\ CheckAndRunTasks =>
             \A n \in TaskNames :
                 (t_tasks[n].enabled /\ t_tasks[n].next_run_at <= t_now) => LoopStarts(n)
       /\ FinishIsBooked]_vars

(* C30 amended: as above, for the enabled and due tasks that are not running when the
   tick comes; one that is running is left to finish *)
C30_DueIdleTasksStart ==
    [][/\ TickSparesDisabled
       /\ CheckAndRunTasks =>
             \A n \in TaskNames :
                 (t_tasks[n].enabled /\ t_tasks[n].next_run_at <= t_now)
                 => (LoopStarts(n) <=> t_tasks[n].status # "running")
       /\ FinishIsBooked]_vars

(* a tick has created a run of one task while the callback of the other was running,
   and a run that raised has been counted and scheduled again *)
C30_Witness ==
    \E n, m \in TaskNames :
        /\ t_running[n] > 0
        /\ t_created[m] > 0
        /\ \E k \in TaskNames : /\ t_tasks[k].error_count > 0
                                /\ t_tasks[k].run_count > 0
                                /\ t_tasks[k].next_run_at > 0

(* the entries the worker has recorded within the hour before utcnow *)
WorkerRecordsInHour(utcnow) ==
    Cardinality({k \in DOMAIN a_history :
                    a_history[k].target # "" /\ InWindow(a_history[k].ts, utcnow, HOUR)})

(* C32: the responses the auto-post worker has enqueued and recorded for the organization
   within an hour are never more than the organization's max_hourly_auto_posts, also
   when calls of process_eligible_responses overlap *)
C32_HourlyCapUnderConcurrency ==
    WorkerRecordsInHour(0) <= WorkerLimits.max_hourly_auto_posts

Queued == {a_queue[k] : k \in DOMAIN a_queue}

(* C35: a response whose status the worker has set to failed has no item queued in the
   posting queue *)
C35_FailedIsNotQueued == \A r \in ResponseIds : a_status[r] = "failed" => r \notin Queued

(* C36: a periodic task never has two runs of its callback in progress at the same time *)
C36_OneRunAtATime == \A n \in TaskNames : t_running[n] <= 1

(* C38: the rate-limit check made inside the eligibility check gives the verdict the
   limits passed to the check give, whatever limits the manager has stored *)
C38_PassedLimitsDecide ==
    l_call.op = "check" =>
        ("rate_limits" \in FailedNames
         <=> "rate_limits" \in ChecksFailed(l_call.response, l_call.org_limits,
                                            l_call.org_limits, l_history, l_now))

(* C31: an item for which cancel returned success is never afterwards marked processing
   or handed to a worker's post callback: once its status is cancelled it stays so and
   the item stays out of the processing set *)
C31_CancelledStaysCancelled ==
    [][\A i \in ItemIds :
          item[i].status = CANCELLED
          => /\ item'[i].status = CANCELLED
             /\ i \notin processing'
             /\ \A w \in Workers : pc'[w] = "post" => witem'[w] # i]_vars

(* the edges of the workflow, and the start of a run *)
DeclaredEdges ==
    {<<"idle", "signal_detection">>, <<"END", "signal_detection">>,
     <<"signal_detection", "risk_scoring">>, <<"signal_detection", "END">>,
     <<"risk_scoring", "handle_blocked">>, <<"risk_scoring", "response_generation">>,
     <<"risk_scoring", "END">>,
     <<"response_generation", "cta_classifier">>, <<"response_generation", "END">>,
     <<"cta_classifier", "cts_decision">>, <<"cta_classifier", "END">>,
     <<"cts_decision", "END">>, <<"handle_blocked", "END">>}

AfterBlocked == {"response_generation", "cta_classifier", "cts_decision"}

(* C33: a run moves along the declared edges only; a risk level of blocked leads from
   risk_scoring to handle_blocked and from there to END, and a blocked run never comes
   to response_generation, cta_classifier or cts_decision; a node that sets error is
   followed by END *)
C33_DeclaredEdgesOnly ==
    [][p_pc' # p_pc =>
          /\ <<p_pc, p_pc'>> \in DeclaredEdges
          /\ (p_pc = "risk_scoring" /\ p_risk' # Absent /\ p_risk'.risk_level = "blocked")
                => p_pc' = "handle_blocked"
          /\ p_pc = "handle_blocked" => p_pc' = "END"
          /\ (p_blocked' /\ p_pc' # "signal_detection") => p_pc' \notin AfterBlocked
          /\ (p_error' /\ p_pc' # "signal_detection") => p_pc' = "END"]_vars

(* a blocked run has ended after handle_blocked, without responses *)
C33_Witness ==
    /\ p_pc = "END"
    /\ p_blocked
    /\ p_risk.risk_level = "blocked"
    /\ p_responses = Absent
    /\ p_cts.set

(* the selection the specification gives for each risk level *)
TypeForRisk == [high |-> "value_first", medium |-> "soft_cta", low |-> "contextual"]

(* C34 as stated: in every responses value the response-generation stage produces,
   selected_type follows from the risk level alone: high gives value_first, medium
   soft_cta, low contextual *)
C34_SelectedTypeByRisk ==
    (p_responses # Absent /\ p_risk # Absent) =>
        p_responses.selected_type = TypeForRisk[p_risk.risk_level]

(* C34 amended: that holds for the responses made from an LLM answer; the fallback
   responses made when the LLM call failed select value_first at every risk level *)
C34_SelectedTypeByRiskOrFallback ==
    (p_responses # Absent /\ p_risk # Absent) =>
        p_responses.selected_type = IF p_responses.fallback_used THEN "value_first"
                                    ELSE TypeForRisk[p_risk.risk_level]

(* both kinds of value have been produced for a risk level that is not high *)
C34_Witness ==
    /\ p_responses # Absent
    /\ p_risk # Absent
    /\ p_risk.risk_level = "low"
    /\ p_responses.fallback_used
    /\ p_responses.selected_type = "value_first"

(* C37: after stop has returned no item is left in status processing *)
C37_NoProcessingAfterStop ==
    s_phase = "stopped" => \A i \in ItemIds : item[i].status # PROCESSING

(* the words with every run of one-letter words made one word *)
RECURSIVE CollapsedRuns(_, _, _)
CollapsedRuns(words, collapsed, in_run) ==
    IF words = <<>>
    THEN collapsed
    ELSE LET word == Head(words)
             letter == Len(word) = 1 /\ word[1] \in Alpha
         IN  IF letter /\ in_run
             THEN CollapsedRuns(Tail(words),
                     [collapsed EXCEPT ![Len(collapsed)] = @ \o word], TRUE)
             ELSE CollapsedRuns(Tail(words), Append(collapsed, word), letter)

Unspaced(text) ==
    JoinWords(CollapsedRuns(
        SplitWords([k \in 1..Len(text) |-> Replaced(CaseFold(text[k]))], <<>>, <<>>),
        <<>>, FALSE))

(* C39: normalization makes one word of every run of single letters, and the  *)
(* text is detected exactly like the text with these runs written as words    *)
C39_SpacedLettersCollapse ==
    /\ n_normalized = Unspaced(n_text)
    /\ n_is_crisis = EndItAll(Unspaced(n_text))

====
